---- MODULE Spec2Model ----
(***************************************************************************)
(* Model of the meme-coin aggregator: the scheduler tick                   *)
(* (MemeCoinAggregator.updateTokenData), the Redis-backed snapshot store   *)
(* (CacheService), the read-through request handler                        *)
(* (TokenController.getTokens), graceful shutdown, and the merger          *)
(* (DataAggregatorService.mergeTokens).                                    *)
(***************************************************************************)
EXTENDS Integers, Sequences, FiniteSets, TLC

VARIABLES
  initialTimer,    \* the setTimeout(..., 1000) of startBackgroundJobs: "armed" | "fired"
  updateInterval,  \* the setInterval handle: "armed" | "cleared"
  stopPc,          \* stop(): "idle" | "disconnecting" | "stopped"
  server,          \* the http server: "listening" | "closed"
  redisStatus,     \* the ioredis connection: "open" | "end"
  nticks,          \* number of updateTokenData calls started so far
  tickPc,          \* per tick: position inside updateTokenData
  fresh,           \* per tick: freshTokens
  settled,         \* per tick: [dexscreenerTokens, geckoterminalTokens] as settled
  keyIdx,          \* per tick: index of the next per-token key setTokens writes
  tickResult,      \* per tick: "pending" | "resolved" | "rejected" (the promise)
  tickError,       \* per tick: the stage whose error the catch block logged, or "none"
  heldBeforePut,   \* per tick: value of tokens:all when the tick's setex ran
  cachedTokens,    \* per tick: what detectSignificantChanges read from the cache
  afterStop,       \* per tick: TRUE iff the tick was started after stop() was called
  startedAlone,    \* per tick: TRUE iff no other tick was in progress when it started
  cacheAll,        \* redis key tokens:all
  cacheWriter,     \* who wrote tokens:all last: [by |-> "none"|"tick"|"request", id |-> n]
  cacheTok,        \* redis keys token:<address>
  emitted,         \* io.emit calls so far, in order
  nreqs,           \* number of GET /api/tokens requests started so far
  reqPc,           \* per request: position inside TokenController.getTokens
  reqTokens,       \* per request: the local variable tokens
  reqMiss,         \* per request: TRUE iff cacheService.getTokens() returned null
  reqKeyIdx,       \* per request: index of the next per-token key setTokens writes
  reqStatus,       \* per request: HTTP status of the response sent, 0 while none
  mIn,             \* merger harness: the argument tokensArrays
  mOut,            \* merger harness: the value mergeTokens returned
  mPc,             \* merger harness: "input" | "merged"
  dPrev,           \* detector harness: the snapshot getTokens() returned
  dCur,            \* detector harness: the argument freshTokens
  dOut,            \* detector harness: the alerts broadcast, in order
  dPc,             \* detector harness: "input" | "detected"
  connectedClients, \* WebSocketService: socket id -> absent, or its subscribedTokens
  sent,            \* WebSocketService: the messages emitted, in order
  fTokens,         \* filter harness: the argument tokens
  fFilters,        \* filter harness: the argument filters
  fOut,            \* filter harness: the list applyFilters returned
  fPc,             \* filter harness: "input" | "filtered"
  pList,           \* paging harness: the filtered list paginateTokens is given
  pLimitQ,         \* paging harness: req.query.limit, a string (<<>> when omitted)
  pFirst,          \* paging harness: req.query.cursor of the first request
  pCursorQ,        \* paging harness: req.query.cursor of the next request
  pAsked,          \* paging harness: req.query.cursor of the last request answered
  pResp,           \* paging harness: the last response body
  pPages,          \* paging harness: the tokens of all responses so far, in order
  pN,              \* paging harness: number of requests answered
  pPc,             \* paging harness: "request" | "done"
  gAddress,        \* GET /api/tokens/:address: req.params.address ("" when missing)
  gPc,             \* getTokenByAddress: "idle" | "getToken" | "getTokens" | "done"
  gToken,          \* getTokenByAddress: what cacheService.getToken returned
  gTokens,         \* getTokenByAddress: what cacheService.getTokens returned
  gStatus,         \* getTokenByAddress: HTTP status of the response, 0 while none
  gBody,           \* getTokenByAddress: the token sent, <<token>>, or <<>>
  uSource,         \* adapter harness: "dexscreener" | "coingecko"
  uResponse,       \* adapter harness: the records of the upstream response
  uOut,            \* adapter harness: the list the fetch resolved to
  uAttempts,       \* adapter harness: number of times the thunk has run
  uPc,             \* adapter harness: "fetching" | "permitted" | "threw" | "fulfilled" | "rejected"
  uPermits,        \* adapter harness: permits left in the rate limiter, per tag
  uCalls           \* adapter harness: the limiter and HTTP calls made, in order

sysVars == <<initialTimer, updateInterval, stopPc, server, redisStatus, nticks,
             tickPc, fresh, settled, keyIdx, tickResult, tickError,
             heldBeforePut, cachedTokens, afterStop, startedAlone, cacheAll, cacheWriter,
             cacheTok, emitted, nreqs, reqPc, reqTokens, reqMiss, reqKeyIdx, reqStatus>>
dVars == <<dPrev, dCur, dOut, dPc>>
wsVars == <<connectedClients, sent>>
fVars == <<fTokens, fFilters, fOut, fPc>>
pVars == <<pList, pLimitQ, pFirst, pCursorQ, pAsked, pResp, pPages, pN, pPc>>
gVars == <<gAddress, gPc, gToken, gTokens, gStatus, gBody>>
uVars == <<uSource, uResponse, uOut, uAttempts, uPc, uPermits, uCalls>>
hVars == <<pVars, gVars, uVars>>
mVars == <<mIn, mOut, mPc, dVars, wsVars, fVars, hVars>>
vars == <<sysVars, mVars>>

(***************************************************************************)
(* Bounds of the model.                                                    *)
(***************************************************************************)
MaxTicks == 2
MaxReqs == 1
MaxLen == 2
MaxConns == 2
MaxBroadcasts == 2
MaxPage == 5
ManyRecords == 51
MaxPages == 6
LongList == 102
MaxPermits == 1

(***************************************************************************)
(* Program constants.                                                      *)
(***************************************************************************)
maxTokens == 1000
batchSize == 50
retryAttempts == 3
TopIndividually == 100

Ticks == 1..MaxTicks
Reqs == 1..MaxReqs
Conns == 1..MaxConns

(***************************************************************************)
(* Token addresses and String.prototype.toLowerCase on them.               *)
(***************************************************************************)
Addresses == {"a", "A", "b"}

toLowerCase(s) ==
  CASE s = "A" -> "a"
    [] s = "B" -> "b"
    [] OTHER -> s

(***************************************************************************)
(* TokenData, restricted to the fields the scheduler, the merger and the   *)
(* change detector read.                                                   *)
(***************************************************************************)
Token(addr, price, vol, cap, liq, src, merged) ==
  [token_address |-> addr, token_name |-> "Unknown", price |-> price,
   priceChange1h |-> 0, priceChangePercentage24h |-> 0, volume24h |-> vol, marketCap |-> cap,
   liquidity |-> liq, transaction_count |-> 0, source |-> src,
   is_merged |-> merged]

\* What fetchFromDexScreener maps a pair to: lowercased address, fdv as
\* market cap, no 24h percentage, own tag.
DexPair(addr, name, price, vol, fdv, liq, txns) ==
  [Token(toLowerCase(addr), price, vol, fdv, liq, <<"dexscreener">>, FALSE)
     EXCEPT !.token_name = name, !.transaction_count = txns]

\* A pair with no name, no fdv and no transactions reported.
DexToken(addr, price, vol, liq) ==
  DexPair(addr, "Unknown", price, vol, 0, liq, 0)

\* What fetchFromGeckoTerminal maps a coin to: the id as it came, no
\* liquidity, no transaction count, own tag.
CgCoin(addr, name, price, pct, vol, cap) ==
  [Token(addr, price, vol, cap, 0, <<"coingecko">>, FALSE)
     EXCEPT !.token_name = name, !.priceChangePercentage24h = pct]

\* A coin with no name and no 24h percentage reported.
CgToken(addr, price, vol, cap) ==
  CgCoin(addr, "Unknown", price, 0, vol, cap)

\* JavaScript's x || y on numbers (0 is falsy).
OrNum(x, y) == IF x = 0 THEN y ELSE x

\* JavaScript's x || y on strings ("" is falsy).
OrStr(x, y) == IF x = "" THEN y ELSE x

Range(s) == {s[i] : i \in DOMAIN s}

Min(a, b) == IF a < b THEN a ELSE b

\* Mutant of SliceTo: one element more than asked for.
SliceThrough(s, n) == SubSeq(s, 1, Min(Len(s), n + 1))

\* Array.prototype.slice(0, n)
SliceTo(s, n) == SubSeq(s, 1, Min(Len(s), n))

\* Array.prototype.flat() on an array of arrays
RECURSIVE Flat(_)
Flat(ss) == IF ss = <<>> THEN <<>> ELSE Head(ss) \o Flat(Tail(ss))

\* [...new Set(s)]: first occurrences, in order
RECURSIVE Unique(_)
Unique(s) ==
  IF s = <<>> THEN <<>>
  ELSE LET r == Unique(SubSeq(s, 1, Len(s) - 1))
           x == s[Len(s)]
       IN IF x \in Range(r) THEN r ELSE Append(r, x)

Includes(s, x) == x \in Range(s)

(***************************************************************************)
(* DataAggregatorService.mergeTokenData                                    *)
(***************************************************************************)
\* Mutant of mergeTokenData: the later record's values win every field.
mergeTokenDataLastWins(tokenA, tokenB) ==
  [tokenB EXCEPT !.source = Unique(tokenA.source \o tokenB.source),
                 !.is_merged = TRUE]

mergeTokenData(tokenA, tokenB) ==
  LET isADexScreener == Includes(tokenA.source, "dexscreener")
      isBCoinGecko == Includes(tokenB.source, "coingecko")
      dexToken == IF isADexScreener THEN tokenA
                  ELSE IF isBCoinGecko THEN tokenB ELSE tokenA
      cgToken == IF isBCoinGecko THEN tokenB
                 ELSE IF isADexScreener THEN tokenA ELSE tokenB
  IN [token_address |-> OrStr(dexToken.token_address, cgToken.token_address),
      token_name |-> OrStr(dexToken.token_name, cgToken.token_name),
      price |-> OrNum(dexToken.price, cgToken.price),
      priceChange1h |-> dexToken.priceChange1h,
      priceChangePercentage24h |-> cgToken.priceChangePercentage24h,
      volume24h |-> OrNum(dexToken.volume24h, cgToken.volume24h),
      marketCap |-> OrNum(cgToken.marketCap, dexToken.marketCap),
      liquidity |-> dexToken.liquidity,
      transaction_count |-> dexToken.transaction_count,
      source |-> Unique(tokenA.source \o tokenB.source),
      is_merged |-> TRUE]

(***************************************************************************)
(* DataAggregatorService.mergeTokens.  tokenMap is a JavaScript Map: a     *)
(* sequence of entries in insertion order; set() on a present key keeps    *)
(* the entry's place.                                                      *)
(***************************************************************************)
MapHas(m, k) == \E i \in DOMAIN m : m[i].key = k

MapGet(m, k) == m[CHOOSE i \in DOMAIN m : m[i].key = k].val

MapSet(m, k, v) ==
  IF MapHas(m, k)
  THEN [i \in DOMAIN m |-> IF m[i].key = k THEN [key |-> k, val |-> v] ELSE m[i]]
  ELSE Append(m, [key |-> k, val |-> v])

MapValues(m) == [i \in DOMAIN m |-> m[i].val]

\* Mutant of MergeKey: the address as it came, not lowercased.
MergeKeyRaw(token) == token.token_address

\* The map key mergeTokens files a token under.
MergeKey(token) == toLowerCase(token.token_address)

\* One iteration of the forEach body.
MergeStep(tokenMap, token) ==
  LET key == MergeKey(token)
  IN IF key = "" THEN tokenMap
     ELSE IF MapHas(tokenMap, key)
          THEN MapSet(tokenMap, key, mergeTokenData(MapGet(tokenMap, key), token))
          ELSE MapSet(tokenMap, key, [token EXCEPT !.is_merged = FALSE])

\* The forEach over the flattened list, in order.  The list is folded half
\* by half, the map after the first half computed before the second half
\* is entered, so that a list of more than maxTokens records can be
\* evaluated.
RECURSIVE MergeFold(_, _)
MergeFold(tokenMap, tokens) ==
  IF tokens = <<>> THEN tokenMap
  ELSE IF Len(tokens) = 1 THEN MergeStep(tokenMap, tokens[1])
  ELSE LET half == Len(tokens) \div 2
           first == MergeFold(tokenMap, SubSeq(tokens, 1, half))
           rest == SubSeq(tokens, half + 1, Len(tokens))
       IN IF first = <<>> THEN MergeFold(<<>>, rest) ELSE MergeFold(first, rest)

\* Array.prototype.sort with (a, b) => (b.volume24h || 0) - (a.volume24h || 0):
\* a stable sort, descending by volume24h.  The place of s[i] in the result:
\* after every element of higher volume and every earlier element of the
\* same volume.  (<<>> \o f is the function f as a sequence.)
VolumePlace(s, i) ==
  Cardinality({j \in DOMAIN s :
                 \/ OrNum(s[j].volume24h, 0) > OrNum(s[i].volume24h, 0)
                 \/ /\ OrNum(s[j].volume24h, 0) = OrNum(s[i].volume24h, 0)
                    /\ j < i}) + 1

SortByVolumeDesc(s) ==
  LET place == <<>> \o [i \in DOMAIN s |-> VolumePlace(s, i)]
  IN <<>> \o [k \in DOMAIN s |-> s[CHOOSE i \in DOMAIN s : place[i] = k]]

mergeTokens(tokensArrays) ==
  SliceTo(SortByVolumeDesc(MapValues(MergeFold(<<>>, Flat(tokensArrays)))), maxTokens)

(***************************************************************************)
(* DataAggregatorService.getAllTokens.  Each adapter's promise settles as  *)
(* fulfilled with a list or as rejected (Promise.allSettled).               *)
(***************************************************************************)
Rejected == [ok |-> FALSE, val |-> <<>>]

Fulfilled(v) == [ok |-> TRUE, val |-> v]

\* Mutant of getAllTokens: Promise.all, which rejects when any adapter does.
getAllTokensAll(dexscreenerTokens, geckoterminalTokens) ==
  IF dexscreenerTokens.ok /\ geckoterminalTokens.ok
  THEN [threw |-> FALSE,
        tokens |-> mergeTokens(<<dexscreenerTokens.val, geckoterminalTokens.val>>)]
  ELSE [threw |-> TRUE, tokens |-> <<>>]

getAllTokens(dexscreenerTokens, geckoterminalTokens) ==
  LET tokensArrays ==
        (IF dexscreenerTokens.ok THEN <<dexscreenerTokens.val>> ELSE <<>>)
        \o (IF geckoterminalTokens.ok THEN <<geckoterminalTokens.val>> ELSE <<>>)
  IN [threw |-> FALSE, tokens |-> mergeTokens(tokensArrays)]

\* Lists the adapters can return in the scheduler model: valid records only
\* (non-empty address, price > 0), DexScreener addresses lowercased.
DexResponses ==
  { <<DexToken("a", 100, 10, 7)>>, <<DexToken("A", 108, 30, 7)>> }

CgResponses ==
  { <<CgToken("A", 100, 10, 500)>>, <<CgToken("b", 50, 5, 300)>> }

DexOutcomes == {Rejected} \cup {Fulfilled(v) : v \in DexResponses}

CgOutcomes == {Rejected} \cup {Fulfilled(v) : v \in CgResponses}

(***************************************************************************)
(* MemeCoinAggregator.detectSignificantChanges: the alerts, in the order   *)
(* they are broadcast.  cachedMap is keyed by token_address as stored; a   *)
(* later duplicate replaces an earlier one.                                *)
(***************************************************************************)
Abs(x) == IF x < 0 THEN -x ELSE x

CachedMapHas(cachedList, addr) ==
  \E i \in DOMAIN cachedList : cachedList[i].token_address = addr

CachedMapGet(cachedList, addr) ==
  LET idx == {i \in DOMAIN cachedList : cachedList[i].token_address = addr}
  IN cachedList[CHOOSE i \in idx : \A j \in idx : j <= i]

\* Mutant of RelChangeAbove: a change exactly at the threshold counts.
RelChangeAtLeast(cachedValue, freshValue, num, den) ==
  den * Abs(freshValue - cachedValue) >= num * cachedValue

\* Math.abs(fresh - cached) / cached > num / den, for cached > 0
RelChangeAbove(cachedValue, freshValue, num, den) ==
  den * Abs(freshValue - cachedValue) > num * cachedValue

Alert(kind, token) == [kind |-> kind, address |-> token.token_address]

\* Mutant of VolumeSpike: a volume of exactly twice the cached one counts.
VolumeSpikeAtDouble(cachedVolume, freshVolume) ==
  cachedVolume > 0 /\ freshVolume >= cachedVolume * 2

\* cachedToken.volume24h > 0 && freshToken.volume24h > cachedToken.volume24h * 2
VolumeSpike(cachedVolume, freshVolume) ==
  cachedVolume > 0 /\ freshVolume > cachedVolume * 2

AlertsFor(cachedToken, freshToken) ==
  (IF cachedToken.price > 0 /\ freshToken.price > 0
      /\ RelChangeAbove(cachedToken.price, freshToken.price, 5, 100)
   THEN <<Alert("price_alert", freshToken)>> ELSE <<>>)
  \o (IF VolumeSpike(cachedToken.volume24h, freshToken.volume24h)
      THEN <<Alert("volume_alert", freshToken)>> ELSE <<>>)
  \o (IF cachedToken.marketCap > 0 /\ freshToken.marketCap > 0
         /\ RelChangeAbove(cachedToken.marketCap, freshToken.marketCap, 10, 100)
      THEN <<Alert("market_cap_alert", freshToken)>> ELSE <<>>)
  \o (IF cachedToken.liquidity > 0 /\ freshToken.liquidity > 0
         /\ RelChangeAbove(cachedToken.liquidity, freshToken.liquidity, 20, 100)
      THEN <<Alert("liquidity_alert", freshToken)>> ELSE <<>>)

RECURSIVE DetectFrom(_, _)
DetectFrom(cachedList, freshTokens) ==
  IF freshTokens = <<>> THEN <<>>
  ELSE (IF CachedMapHas(cachedList, Head(freshTokens).token_address)
        THEN AlertsFor(CachedMapGet(cachedList, Head(freshTokens).token_address),
                       Head(freshTokens))
        ELSE <<>>)
       \o DetectFrom(cachedList, Tail(freshTokens))

\* Mutant of detectSignificantChanges: a token not in the cached snapshot
\* is announced with a price_alert.
detectSignificantChangesAndNew(cached, freshTokens) ==
  IF ~cached.present THEN <<>>
  ELSE DetectFrom(cached.val, freshTokens)
       \o SelectSeq([i \in DOMAIN freshTokens |->
                       Alert("price_alert", freshTokens[i])],
                    LAMBDA al : ~CachedMapHas(cached.val, al.address))

\* cached is what cacheService.getTokens() returned (absent: null).
detectSignificantChanges(cached, freshTokens) ==
  IF ~cached.present THEN <<>> ELSE DetectFrom(cached.val, freshTokens)

(***************************************************************************)
(* Redis values: a key is absent (null) or holds a value.                  *)
(***************************************************************************)
Absent == [present |-> FALSE, val |-> <<>>]

Present(v) == [present |-> TRUE, val |-> v]

NoWriter == [by |-> "none", id |-> 0]

\* The records setTokens caches individually: tokens.slice(0, 100).
Individually(tokens) == SliceTo(tokens, TopIndividually)

\* The event broadcastTokenUpdate emits for tick t.
BatchUpdate(t, tokens) ==
  [kind |-> "batch_update", tick |-> t, address |-> "", data |-> tokens]

AlertEvents(t, alerts) ==
  [i \in DOMAIN alerts |->
     [kind |-> alerts[i].kind, tick |-> t, address |-> alerts[i].address,
      data |-> <<>>]]

(***************************************************************************)
(* The state after `new MemeCoinAggregator()` and start(): both timers of  *)
(* startBackgroundJobs are armed, the server listens, the cache is empty.  *)
(***************************************************************************)
SysInit ==
  /\ initialTimer = "armed"
  /\ updateInterval = "armed"
  /\ stopPc = "idle"
  /\ server = "listening"
  /\ redisStatus = "open"
  /\ nticks = 0
  /\ tickPc = [t \in Ticks |-> "idle"]
  /\ fresh = [t \in Ticks |-> <<>>]
  /\ settled = [t \in Ticks |-> <<Rejected, Rejected>>]
  /\ keyIdx = [t \in Ticks |-> 0]
  /\ tickResult = [t \in Ticks |-> "pending"]
  /\ tickError = [t \in Ticks |-> "none"]
  /\ heldBeforePut = [t \in Ticks |-> Absent]
  /\ cachedTokens = [t \in Ticks |-> Absent]
  /\ afterStop = [t \in Ticks |-> FALSE]
  /\ startedAlone = [t \in Ticks |-> FALSE]
  /\ cacheAll = Absent
  /\ cacheWriter = NoWriter
  /\ cacheTok = [a \in Addresses |-> Absent]
  /\ emitted = <<>>
  /\ nreqs = 0
  /\ reqPc = [r \in Reqs |-> "idle"]
  /\ reqTokens = [r \in Reqs |-> <<>>]
  /\ reqMiss = [r \in Reqs |-> FALSE]
  /\ reqKeyIdx = [r \in Reqs |-> 0]
  /\ reqStatus = [r \in Reqs |-> 0]

DInit ==
  /\ dPrev = <<>>
  /\ dCur = <<>>
  /\ dOut = <<>>
  /\ dPc = "input"

\* FilterOptions of a request with no query parameter: every field undefined
\* (0 and "" stand for undefined; both are falsy like it).
NoFilters ==
  [min_liquidity |-> 0, min_volume |-> 0, time_period |-> "",
   sort_by |-> "", sort_order |-> ""]

FInit ==
  /\ fTokens = <<>>
  /\ fFilters = NoFilters
  /\ fOut = <<>>
  /\ fPc = "input"

\* No socket has connected.
WsInit ==
  /\ connectedClients = [c \in Conns |-> Absent]
  /\ sent = <<>>

\* The body of a response nobody has sent yet.
NoResponse ==
  [tokens |-> <<>>, next_cursor |-> <<>>, has_more |-> FALSE, total_count |-> 0]

\* No GET /api/tokens page has been asked for.
PInit ==
  /\ pList = <<>>
  /\ pLimitQ = <<>>
  /\ pFirst = <<>>
  /\ pCursorQ = <<>>
  /\ pAsked = <<>>
  /\ pResp = NoResponse
  /\ pPages = <<>>
  /\ pN = 0
  /\ pPc = "request"

\* No GET /api/tokens/:address has been received.
GInit ==
  /\ gAddress = ""
  /\ gPc = "idle"
  /\ gToken = Absent
  /\ gTokens = Absent
  /\ gStatus = 0
  /\ gBody = <<>>

\* The tags the rate limiter keeps a bucket for.
Tags == {"dexscreener", "coingecko"}

\* Buckets that hold a permit for every attempt of a fetch.
EnoughPermits == [tag \in Tags |-> retryAttempts]

\* No adapter has been called.
UInit ==
  /\ uSource = "dexscreener"
  /\ uResponse = <<>>
  /\ uOut = <<>>
  /\ uAttempts = 0
  /\ uPc = "fetching"
  /\ uPermits = EnoughPermits
  /\ uCalls = <<>>

HInit == PInit /\ GInit /\ UInit

MInit ==
  /\ mIn = <<>>
  /\ mOut = <<>>
  /\ mPc = "input"
  /\ DInit
  /\ WsInit
  /\ FInit
  /\ HInit

Init == SysInit /\ MInit

timerVars == <<initialTimer, updateInterval, stopPc, server, redisStatus>>
tickVars == <<nticks, tickPc, fresh, settled, keyIdx, tickResult, tickError,
              heldBeforePut, cachedTokens, afterStop, startedAlone>>
reqVars == <<nreqs, reqPc, reqTokens, reqMiss, reqKeyIdx, reqStatus>>
cacheVars == <<cacheAll, cacheWriter, cacheTok>>

(***************************************************************************)
(* startBackgroundJobs: the timer callbacks.  Each calls updateTokenData() *)
(* with no check of a tick already in progress.                            *)
(***************************************************************************)
\* May the interval callback start a tick now?  (setInterval has no guard.)
IntervalMayStart == updateInterval = "armed"

\* May the one-second startup callback start a tick now?
InitialMayStart == initialTimer = "armed"

StartTick ==
  /\ nticks < MaxTicks
  /\ nticks' = nticks + 1
  /\ tickPc' = [tickPc EXCEPT ![nticks + 1] = "getAllTokens"]
  /\ afterStop' = [afterStop EXCEPT ![nticks + 1] = (stopPc # "idle")]
  /\ startedAlone' = [startedAlone EXCEPT
       ![nticks + 1] = \A t \in Ticks : tickPc[t] \in {"idle", "done"}]

\* setTimeout(() => this.updateTokenData(), 1000)
InitialTimerFire ==
  /\ InitialMayStart
  /\ initialTimer' = "fired"
  /\ StartTick
  /\ UNCHANGED <<updateInterval, stopPc, server, redisStatus, fresh, settled,
                 keyIdx, tickResult, tickError, heldBeforePut, cachedTokens,
                 cacheVars, emitted, reqVars, mVars>>

\* setInterval(() => this.updateTokenData(), updateInterval): 10 s, so its
\* first firing comes after the one-second timer's.
IntervalFire ==
  /\ IntervalMayStart
  /\ initialTimer = "fired"
  /\ StartTick
  /\ UNCHANGED <<timerVars, fresh, settled, keyIdx, tickResult, tickError,
                 heldBeforePut, cachedTokens, cacheVars, emitted, reqVars, mVars>>

(***************************************************************************)
(* MemeCoinAggregator.updateTokenData, one action per await.               *)
(***************************************************************************)
\* Mutant of updateTokenDataCatch: the catch block logs and rethrows.
updateTokenDataRethrow(stage) == [result |-> "rejected", logged |-> stage]

\* The catch block: logs, and the async function returns normally.
updateTokenDataCatch(stage) == [result |-> "resolved", logged |-> stage]

TickCaught(t, stage) ==
  /\ tickPc' = [tickPc EXCEPT ![t] = "done"]
  /\ tickResult' = [tickResult EXCEPT ![t] = updateTokenDataCatch(stage).result]
  /\ tickError' = [tickError EXCEPT ![t] = updateTokenDataCatch(stage).logged]

\* await this.dataAggregator.getAllTokens()
TickGetAllTokens(t) ==
  /\ tickPc[t] = "getAllTokens"
  /\ \E d \in DexOutcomes, c \in CgOutcomes :
       LET r == getAllTokens(d, c)
       IN /\ settled' = [settled EXCEPT ![t] = <<d, c>>]
          /\ IF r.threw
             THEN /\ TickCaught(t, "getAllTokens")
                  /\ UNCHANGED fresh
             ELSE /\ fresh' = [fresh EXCEPT ![t] = r.tokens]
                  /\ tickPc' = [tickPc EXCEPT ![t] = "setTokens"]
                  /\ UNCHANGED <<tickResult, tickError>>
  /\ UNCHANGED <<timerVars, nticks, keyIdx, heldBeforePut, cachedTokens,
                 afterStop,
                 startedAlone, cacheVars, emitted, reqVars, mVars>>

\* Mutant of TickAfterSetTokens: the snapshot is broadcast twice.
TickAfterSetTokensTwice(t) ==
  /\ emitted' = emitted \o <<BatchUpdate(t, fresh[t]), BatchUpdate(t, fresh[t])>>
  /\ tickPc' = [tickPc EXCEPT ![t] = "detect"]
  /\ UNCHANGED <<tickResult, tickError>>

\* setTokens returned: broadcastTokenUpdate(freshTokens), then
\* detectSignificantChanges awaits cacheService.getTokens().
TickAfterSetTokens(t) ==
  /\ emitted' = Append(emitted, BatchUpdate(t, fresh[t]))
  /\ tickPc' = [tickPc EXCEPT ![t] = "detect"]
  /\ UNCHANGED <<tickResult, tickError>>

\* CacheService.setTokens: await redis.setex('tokens:all', ...) succeeded
TickSetexAll(t) ==
  /\ tickPc[t] = "setTokens"
  /\ redisStatus = "open"
  /\ cacheAll' = Present(fresh[t])
  /\ cacheWriter' = [by |-> "tick", id |-> t]
  /\ heldBeforePut' = [heldBeforePut EXCEPT ![t] = cacheAll]
  /\ IF Individually(fresh[t]) = <<>>
     THEN /\ TickAfterSetTokens(t)
          /\ UNCHANGED keyIdx
     ELSE /\ tickPc' = [tickPc EXCEPT ![t] = "setTokenKeys"]
          /\ keyIdx' = [keyIdx EXCEPT ![t] = 1]
          /\ UNCHANGED <<tickResult, tickError, emitted>>
  /\ UNCHANGED <<timerVars, nticks, fresh, settled, cachedTokens, afterStop,
                 startedAlone,
                 cacheTok, reqVars, mVars>>

\* CacheService.setTokens: await redis.setex(`token:${token.token_address}`)
\* succeeded for the keyIdx-th record
TickSetexToken(t) ==
  /\ tickPc[t] = "setTokenKeys"
  /\ redisStatus = "open"
  /\ LET token == Individually(fresh[t])[keyIdx[t]]
     IN cacheTok' = [cacheTok EXCEPT ![token.token_address] = Present(<<token>>)]
  /\ IF keyIdx[t] = Len(Individually(fresh[t]))
     THEN /\ TickAfterSetTokens(t)
          /\ UNCHANGED keyIdx
     ELSE /\ keyIdx' = [keyIdx EXCEPT ![t] = keyIdx[t] + 1]
          /\ UNCHANGED <<tickPc, tickResult, tickError, emitted>>
  /\ UNCHANGED <<timerVars, nticks, fresh, settled, heldBeforePut,
                 cachedTokens, afterStop,
                 startedAlone, cacheAll, cacheWriter, reqVars, mVars>>

\* CacheService.setTokens: a setex rejected; setTokens logs and rethrows,
\* updateTokenData catches.
TickSetexFails(t) ==
  /\ tickPc[t] \in {"setTokens", "setTokenKeys"}
  /\ TickCaught(t, "setTokens")
  /\ UNCHANGED <<timerVars, nticks, fresh, settled, keyIdx, heldBeforePut,
                 cachedTokens, afterStop,
                 startedAlone, cacheVars, emitted, reqVars, mVars>>

\* CacheService.getTokens: the value read, null on a miss or a redis error.
getTokens(failed) ==
  IF failed \/ redisStatus # "open" THEN Absent ELSE cacheAll

\* CacheService.getToken: the per-token key of the lowercased address, null
\* on a miss or a redis error.
getToken(address, failed) ==
  IF failed \/ redisStatus # "open" THEN Absent
  ELSE cacheTok[toLowerCase(address)]

\* detectSignificantChanges: await cacheService.getTokens(), then the loop.
TickDetect(t) ==
  /\ tickPc[t] = "detect"
  /\ \E failed \in BOOLEAN :
       /\ cachedTokens' = [cachedTokens EXCEPT ![t] = getTokens(failed)]
       /\ emitted' = emitted \o
            AlertEvents(t, detectSignificantChanges(getTokens(failed), fresh[t]))
  /\ tickPc' = [tickPc EXCEPT ![t] = "done"]
  /\ tickResult' = [tickResult EXCEPT ![t] = "resolved"]
  /\ UNCHANGED <<timerVars, nticks, fresh, settled, keyIdx, tickError,
                 heldBeforePut, afterStop,
                 startedAlone, cacheVars, reqVars, mVars>>

(***************************************************************************)
(* TokenController.getTokens (GET /api/tokens), one action per await.      *)
(***************************************************************************)
ReqStart ==
  /\ server = "listening"
  /\ nreqs < MaxReqs
  /\ nreqs' = nreqs + 1
  /\ reqPc' = [reqPc EXCEPT ![nreqs + 1] = "getTokens"]
  /\ UNCHANGED <<timerVars, tickVars, cacheVars, emitted,
                 reqTokens, reqMiss, reqKeyIdx, reqStatus, mVars>>

\* Mutant of ReqNeedsFetch: the handler refreshes the cache on every request.
ReqNeedsFetchAlways(cached) == TRUE

\* if (!tokens): does the handler fetch fresh data and write the cache?
ReqNeedsFetch(cached) == ~cached.present

\* let tokens = await this.cacheService.getTokens()
ReqGetTokens(r) ==
  /\ reqPc[r] = "getTokens"
  /\ \E failed \in BOOLEAN :
       LET cached == getTokens(failed)
       IN /\ reqMiss' = [reqMiss EXCEPT ![r] = ~cached.present]
          /\ reqTokens' = [reqTokens EXCEPT ![r] = cached.val]
          /\ IF ReqNeedsFetch(cached)
             THEN /\ reqPc' = [reqPc EXCEPT ![r] = "getAllTokens"]
                  /\ UNCHANGED reqStatus
             ELSE /\ reqPc' = [reqPc EXCEPT ![r] = "done"]
                  /\ reqStatus' = [reqStatus EXCEPT ![r] = 200]
  /\ UNCHANGED <<timerVars, tickVars, cacheVars, emitted,
                 nreqs, reqKeyIdx, mVars>>

\* tokens = await this.dataAggregator.getAllTokens()
ReqGetAllTokens(r) ==
  /\ reqPc[r] = "getAllTokens"
  /\ \E d \in DexOutcomes, c \in CgOutcomes :
       LET res == getAllTokens(d, c)
       IN IF res.threw
          THEN /\ reqPc' = [reqPc EXCEPT ![r] = "done"]
               /\ reqStatus' = [reqStatus EXCEPT ![r] = 500]
               /\ UNCHANGED reqTokens
          ELSE /\ reqTokens' = [reqTokens EXCEPT ![r] = res.tokens]
               /\ reqPc' = [reqPc EXCEPT ![r] = "setTokens"]
               /\ UNCHANGED reqStatus
  /\ UNCHANGED <<timerVars, tickVars, cacheVars, emitted,
                 nreqs, reqMiss, reqKeyIdx, mVars>>

\* setTokens returned: applyFilters, paginateTokens, res.json(...)
ReqRespond(r) ==
  /\ reqPc' = [reqPc EXCEPT ![r] = "done"]
  /\ reqStatus' = [reqStatus EXCEPT ![r] = 200]

\* Mutant of ReqSetexAll: the handler goes on without storing the list.
ReqSetexAllSkipped(r) ==
  /\ reqPc[r] = "setTokens"
  /\ redisStatus = "open"
  /\ ReqRespond(r)
  /\ UNCHANGED <<timerVars, tickVars, cacheVars, emitted,
                 nreqs, reqTokens, reqMiss, reqKeyIdx, mVars>>

\* await this.cacheService.setTokens(tokens): setex('tokens:all') succeeded
ReqSetexAll(r) ==
  /\ reqPc[r] = "setTokens"
  /\ redisStatus = "open"
  /\ cacheAll' = Present(reqTokens[r])
  /\ cacheWriter' = [by |-> "request", id |-> r]
  /\ IF Individually(reqTokens[r]) = <<>>
     THEN /\ ReqRespond(r)
          /\ UNCHANGED reqKeyIdx
     ELSE /\ reqPc' = [reqPc EXCEPT ![r] = "setTokenKeys"]
          /\ reqKeyIdx' = [reqKeyIdx EXCEPT ![r] = 1]
          /\ UNCHANGED reqStatus
  /\ UNCHANGED <<timerVars, tickVars, cacheTok, emitted,
                 nreqs, reqTokens, reqMiss, mVars>>

\* setTokens: setex of the reqKeyIdx-th per-token key succeeded
ReqSetexToken(r) ==
  /\ reqPc[r] = "setTokenKeys"
  /\ redisStatus = "open"
  /\ LET token == Individually(reqTokens[r])[reqKeyIdx[r]]
     IN cacheTok' = [cacheTok EXCEPT ![token.token_address] = Present(<<token>>)]
  /\ IF reqKeyIdx[r] = Len(Individually(reqTokens[r]))
     THEN /\ ReqRespond(r)
          /\ UNCHANGED reqKeyIdx
     ELSE /\ reqKeyIdx' = [reqKeyIdx EXCEPT ![r] = reqKeyIdx[r] + 1]
          /\ UNCHANGED <<reqPc, reqStatus>>
  /\ UNCHANGED <<timerVars, tickVars, cacheAll, cacheWriter,
                 emitted, nreqs, reqTokens, reqMiss, mVars>>

\* setTokens threw: the handler's catch answers 500
ReqSetexFails(r) ==
  /\ reqPc[r] \in {"setTokens", "setTokenKeys"}
  /\ reqPc' = [reqPc EXCEPT ![r] = "done"]
  /\ reqStatus' = [reqStatus EXCEPT ![r] = 500]
  /\ UNCHANGED <<timerVars, tickVars, cacheVars, emitted,
                 nreqs, reqTokens, reqMiss, reqKeyIdx, mVars>>

(***************************************************************************)
(* Redis TTL: a key written with setex expires.                            *)
(***************************************************************************)
ExpireAll ==
  /\ cacheAll.present
  /\ cacheAll' = Absent
  /\ cacheWriter' = NoWriter
  /\ UNCHANGED <<timerVars, tickVars, cacheTok, emitted,
                 reqVars, mVars>>

ExpireToken(a) ==
  /\ cacheTok[a].present
  /\ cacheTok' = [cacheTok EXCEPT ![a] = Absent]
  /\ UNCHANGED <<timerVars, tickVars, cacheAll, cacheWriter,
                 emitted, reqVars, mVars>>

(***************************************************************************)
(* MemeCoinAggregator.stop                                                 *)
(***************************************************************************)
\* clearInterval(this.updateInterval), then await cacheService.disconnect()
Stop ==
  /\ stopPc = "idle"
  /\ stopPc' = "disconnecting"
  /\ updateInterval' = "cleared"
  /\ UNCHANGED <<initialTimer, server, redisStatus, tickVars, cacheVars,
                 emitted, reqVars, mVars>>

\* redis.quit() resolved; this.server.close()
StopFinish ==
  /\ stopPc = "disconnecting"
  /\ stopPc' = "stopped"
  /\ redisStatus' = "end"
  /\ server' = "closed"
  /\ UNCHANGED <<initialTimer, updateInterval, tickVars,
                 cacheVars, emitted, reqVars, mVars>>

(***************************************************************************)
(* Spec: the scheduler.  Both timers, up to MaxTicks ticks that may        *)
(* overlap, the cache with its TTL, and shutdown.                          *)
(***************************************************************************)
Next ==
  \/ InitialTimerFire
  \/ IntervalFire
  \/ \E t \in Ticks : TickGetAllTokens(t)
  \/ \E t \in Ticks : TickSetexAll(t)
  \/ \E t \in Ticks : TickSetexToken(t)
  \/ \E t \in Ticks : TickSetexFails(t)
  \/ \E t \in Ticks : TickDetect(t)
  \/ ExpireAll
  \/ \E a \in Addresses : ExpireToken(a)
  \/ Stop
  \/ StopFinish

Spec == Init /\ [][Next]_vars

(***************************************************************************)
(* SpecApi: GET /api/tokens requests running against the startup tick      *)
(* (the time before the interval's first firing), the cache and shutdown.  *)
(***************************************************************************)
ApiNext ==
  \/ InitialTimerFire
  \/ \E t \in Ticks : TickGetAllTokens(t)
  \/ \E t \in Ticks : TickSetexAll(t)
  \/ \E t \in Ticks : TickSetexToken(t)
  \/ \E t \in Ticks : TickSetexFails(t)
  \/ \E t \in Ticks : TickDetect(t)
  \/ ReqStart
  \/ \E r \in Reqs : ReqGetTokens(r)
  \/ \E r \in Reqs : ReqGetAllTokens(r)
  \/ \E r \in Reqs : ReqSetexAll(r)
  \/ \E r \in Reqs : ReqSetexToken(r)
  \/ \E r \in Reqs : ReqSetexFails(r)
  \/ ExpireAll
  \/ \E a \in Addresses : ExpireToken(a)
  \/ Stop
  \/ StopFinish

SpecApi == Init /\ [][ApiNext]_vars

(***************************************************************************)
(* The merger on its own: mergeTokens applied to every array of at most    *)
(* two lists of at most MaxLen records.                                    *)
(***************************************************************************)
MergeRecords ==
  { DexToken("a", 100, 10, 7),
    CgToken("A", 110, 20, 500),
    CgToken("a", 120, 30, 600),
    CgToken("b", 50, 5, 300),
    CgToken("", 60, 40, 0),
    DexPair("A", "Dex Name", 100, 0, 900, 7, 3),
    CgCoin("a", "Cg Name", 120, 12, 30, 0) }

MergeLists == UNION {[1..n -> MergeRecords] : n \in 0..MaxLen}

\* One list of n CoinGecko records with distinct ids, volumes ascending
\* (fetchFromGeckoTerminal returns as many records as the response holds).
ManyTokens(n) == [i \in 1..n |-> CgToken("t" \o ToString(i), i, i, i)]

\* One more record than mergeTokens keeps.
TooMany == maxTokens + 1

MergeInputs ==
  UNION {[1..n -> MergeLists] : n \in 0..2} \cup {<<ManyTokens(TooMany)>>}

MergeInit ==
  /\ SysInit
  /\ DInit
  /\ WsInit
  /\ FInit
  /\ HInit
  /\ mIn \in MergeInputs
  /\ mOut = <<>>
  /\ mPc = "input"

MergeCall ==
  /\ mPc = "input"
  /\ mOut' = mergeTokens(mIn)
  /\ mPc' = "merged"
  /\ UNCHANGED <<sysVars, mIn, dVars, wsVars, fVars, hVars>>

MergeNext == MergeCall

SpecMerge == MergeInit /\ [][MergeNext]_vars

(***************************************************************************)
(* The merger on one record, or on two one-record lists: mergeTokens is a  *)
(* public method and takes any TokenData, so a record of either tag may    *)
(* carry any field (the unit tests pass a 'coingecko' record with its own  *)
(* liquidity and transaction count).  transaction_count goes with          *)
(* liquidity and marketCap with the 24h percentage, to keep the set small. *)
(***************************************************************************)
FuseRecords ==
  { [Token(addr, price, vol, IF pct = 0 THEN 0 ELSE 500, liq, <<src>>, FALSE)
       EXCEPT !.transaction_count = liq,
              !.priceChangePercentage24h = pct] :
      addr \in {"a", "A"}, price \in {0, 5}, vol \in {0, 10, 30},
      liq \in {0, 7, 9}, pct \in {0, 12},
      src \in {"dexscreener", "coingecko"} }

FuseInputs ==
  {<<<<t>>>> : t \in FuseRecords}
  \cup {<<<<a>>, <<b>>>> : a \in FuseRecords, b \in FuseRecords}

FuseInit ==
  /\ SysInit
  /\ DInit
  /\ WsInit
  /\ FInit
  /\ HInit
  /\ mIn \in FuseInputs
  /\ mOut = <<>>
  /\ mPc = "input"

SpecFuse == FuseInit /\ [][MergeNext]_vars

(***************************************************************************)
(* The change detector on its own: detectSignificantChanges applied to     *)
(* every pair of a cached and a fresh snapshot of at most MaxLen tokens    *)
(* with distinct addresses.                                                *)
(***************************************************************************)
DetectRecords ==
  { Token("a", 100, 10, 500, 10, <<"dexscreener">>, FALSE),
    Token("a", 105, 20, 550, 12, <<"dexscreener">>, FALSE),
    Token("a", 106, 21, 551, 13, <<"dexscreener">>, FALSE),
    Token("a", 94, 10, 449, 7, <<"dexscreener">>, FALSE),
    Token("a", 100, 0, 0, 0, <<"dexscreener">>, FALSE),
    Token("b", 50, 5, 300, 0, <<"coingecko">>, FALSE),
    Token("b", 60, 11, 300, 0, <<"coingecko">>, FALSE) }

DetectSnapshots ==
  {snap \in UNION {[1..n -> DetectRecords] : n \in 0..MaxLen} :
     \A i, j \in DOMAIN snap :
       i # j => snap[i].token_address # snap[j].token_address}

DetectInit ==
  /\ SysInit
  /\ WsInit
  /\ FInit
  /\ HInit
  /\ mIn = <<>>
  /\ mOut = <<>>
  /\ mPc = "input"
  /\ dPrev \in DetectSnapshots
  /\ dCur \in DetectSnapshots
  /\ dOut = <<>>
  /\ dPc = "input"

DetectCall ==
  /\ dPc = "input"
  /\ dOut' = detectSignificantChanges(Present(dPrev), dCur)
  /\ dPc' = "detected"
  /\ UNCHANGED <<sysVars, mIn, mOut, mPc, dPrev, dCur, wsVars, fVars, hVars>>

DetectNext == DetectCall

SpecDetect == DetectInit /\ [][DetectNext]_vars

(***************************************************************************)
(* WebSocketService: the socket handlers and the broadcast methods.  Each  *)
(* handler and each broadcast runs to completion (no await inside).        *)
(* A message is [event, to, address]: to = 0 is io.emit (every socket),    *)
(* to = c is io.to(c).emit.                                                *)
(***************************************************************************)
ToAll == 0

Message(event, to, token) ==
  [event |-> event, to |-> to, address |-> token.token_address]

\* Mutant of LowerAll: the addresses as the client sent them.
AsSent(tokens) == tokens

\* data.tokens.map(token => token.toLowerCase())
LowerAll(tokens) == {toLowerCase(a) : a \in tokens}

\* this.io.on('connection'): a fresh client entry with an empty set
Connect(c) ==
  /\ ~connectedClients[c].present
  /\ connectedClients' = [connectedClients EXCEPT ![c] = Present({})]
  /\ UNCHANGED <<sysVars, mIn, mOut, mPc, dVars, sent, fVars, hVars>>

\* socket.on('subscribe_tokens'): nothing is done for an id with no entry
\* (if (client && data.tokens)).
SubscribeTokens(c, tokens) ==
  /\ connectedClients' =
       IF connectedClients[c].present
       THEN [connectedClients EXCEPT
               ![c] = Present(connectedClients[c].val \cup LowerAll(tokens))]
       ELSE connectedClients
  /\ UNCHANGED <<sysVars, mIn, mOut, mPc, dVars, sent, fVars, hVars>>

\* socket.on('unsubscribe_tokens'): nothing is done for an id with no entry.
UnsubscribeTokens(c, tokens) ==
  /\ connectedClients' =
       IF connectedClients[c].present
       THEN [connectedClients EXCEPT
               ![c] = Present(connectedClients[c].val \ LowerAll(tokens))]
       ELSE connectedClients
  /\ UNCHANGED <<sysVars, mIn, mOut, mPc, dVars, sent, fVars, hVars>>

\* socket.on('disconnect')
Disconnect(c) ==
  /\ connectedClients[c].present
  /\ connectedClients' = [connectedClients EXCEPT ![c] = Absent]
  /\ UNCHANGED <<sysVars, mIn, mOut, mPc, dVars, sent, fVars, hVars>>

\* this.connectedClients.size
getConnectedClientsCount ==
  Cardinality({c \in Conns : connectedClients[c].present})

\* Mutant of IsSubscribed: every connected client counts as subscribed.
IsConnected(c, token) == connectedClients[c].present

\* client.subscribedTokens.has(token.token_address.toLowerCase())
IsSubscribed(c, token) ==
  /\ connectedClients[c].present
  /\ toLowerCase(token.token_address) \in connectedClients[c].val

\* this.connectedClients.forEach(...): the per-subscriber messages for the
\* clients c..MaxConns
RECURSIVE ToSubscribers(_, _)
ToSubscribers(c, token) ==
  IF c > MaxConns THEN <<>>
  ELSE (IF IsSubscribed(c, token)
        THEN <<Message("subscribed_token_update", c, token)>> ELSE <<>>)
       \o ToSubscribers(c + 1, token)

\* The tokens the broadcast methods are called with.
WsTokens ==
  { DexToken("a", 100, 10, 7), CgToken("A", 100, 10, 500),
    CgToken("b", 50, 5, 300) }

Broadcasts == Cardinality({i \in DOMAIN sent : sent[i].to = ToAll})

broadcastTokenUpdate ==
  /\ Broadcasts < MaxBroadcasts
  /\ sent' = Append(sent, [event |-> "token_updates", to |-> ToAll,
                           address |-> ""])
  /\ UNCHANGED <<sysVars, mIn, mOut, mPc, dVars, connectedClients, fVars, hVars>>

broadcastPriceChange(token) ==
  /\ Broadcasts < MaxBroadcasts
  /\ sent' = Append(sent, Message("price_alert", ToAll, token))
               \o ToSubscribers(1, token)
  /\ UNCHANGED <<sysVars, mIn, mOut, mPc, dVars, connectedClients, fVars, hVars>>

broadcastVolumeSpike(token) ==
  /\ Broadcasts < MaxBroadcasts
  /\ sent' = Append(sent, Message("volume_alert", ToAll, token))
  /\ UNCHANGED <<sysVars, mIn, mOut, mPc, dVars, connectedClients, fVars, hVars>>

broadcastMarketCapChange(token) ==
  /\ Broadcasts < MaxBroadcasts
  /\ sent' = Append(sent, Message("market_cap_alert", ToAll, token))
  /\ UNCHANGED <<sysVars, mIn, mOut, mPc, dVars, connectedClients, fVars, hVars>>

broadcastLiquidityChange(token) ==
  /\ Broadcasts < MaxBroadcasts
  /\ sent' = Append(sent, Message("liquidity_alert", ToAll, token))
  /\ UNCHANGED <<sysVars, mIn, mOut, mPc, dVars, connectedClients, fVars, hVars>>

WsNext ==
  \/ \E c \in Conns : Connect(c)
  \/ \E c \in Conns, tokens \in SUBSET Addresses : SubscribeTokens(c, tokens)
  \/ \E c \in Conns, tokens \in SUBSET Addresses : UnsubscribeTokens(c, tokens)
  \/ \E c \in Conns : Disconnect(c)
  \/ broadcastTokenUpdate
  \/ \E token \in WsTokens : broadcastPriceChange(token)
  \/ \E token \in WsTokens : broadcastVolumeSpike(token)
  \/ \E token \in WsTokens : broadcastMarketCapChange(token)
  \/ \E token \in WsTokens : broadcastLiquidityChange(token)

SpecWs == Init /\ [][WsNext]_vars

(***************************************************************************)
(* TokenController.applyFilters, for requests without a protocol filter.   *)
(***************************************************************************)
\* aValue / bValue of the sort comparator
SortValue(token, filters) ==
  CASE filters.sort_by = "volume" -> OrNum(token.volume24h, 0)
    [] filters.sort_by = "price_change" ->
         IF OrStr(filters.time_period, "24h") = "1h"
         THEN OrNum(token.priceChange1h, 0)
         ELSE OrNum(token.priceChangePercentage24h, 0)
    [] filters.sort_by = "market_cap" -> OrNum(token.marketCap, 0)
    [] filters.sort_by = "liquidity" -> OrNum(token.liquidity, 0)
    [] filters.sort_by = "transaction_count" -> OrNum(token.transaction_count, 0)
    [] OTHER -> OrNum(token.volume24h, 0)

\* The comparator's return value for (a, b)
SortCompare(a, b, filters) ==
  IF filters.sort_order = "desc"
  THEN SortValue(b, filters) - SortValue(a, filters)
  ELSE SortValue(a, filters) - SortValue(b, filters)

RECURSIVE InsertByCompare(_, _, _)
InsertByCompare(sorted, t, filters) ==
  IF sorted = <<>> THEN <<t>>
  ELSE IF SortCompare(Head(sorted), t, filters) <= 0
       THEN <<Head(sorted)>> \o InsertByCompare(Tail(sorted), t, filters)
       ELSE <<t>> \o sorted

\* filtered.sort(comparator): Array.prototype.sort is stable
RECURSIVE SortByCompare(_, _)
SortByCompare(s, filters) ==
  IF s = <<>> THEN <<>>
  ELSE InsertByCompare(SortByCompare(SubSeq(s, 1, Len(s) - 1), filters),
                       s[Len(s)], filters)

MinLiquidityOk(token, filters) ==
  OrNum(token.liquidity, 0) >= filters.min_liquidity

MinVolumeOk(token, filters) ==
  OrNum(token.volume24h, 0) >= filters.min_volume

\* Mutant of applyFilters: the volume filter is applied to the list as it
\* came, so that it undoes the liquidity filter.
applyFiltersOnInput(tokens, filters) ==
  LET byLiquidity ==
        IF filters.min_liquidity # 0
        THEN SelectSeq(tokens, LAMBDA token : MinLiquidityOk(token, filters))
        ELSE tokens
      filtered ==
        IF filters.min_volume # 0
        THEN SelectSeq(tokens, LAMBDA token : MinVolumeOk(token, filters))
        ELSE byLiquidity
  IN IF filters.time_period = "7d" THEN filtered
     ELSE IF filters.sort_by # "" THEN SortByCompare(filtered, filters)
     ELSE SortByVolumeDesc(filtered)

applyFilters(tokens, filters) ==
  LET byLiquidity ==
        IF filters.min_liquidity # 0
        THEN SelectSeq(tokens, LAMBDA token : MinLiquidityOk(token, filters))
        ELSE tokens
      filtered ==
        IF filters.min_volume # 0
        THEN SelectSeq(byLiquidity, LAMBDA token : MinVolumeOk(token, filters))
        ELSE byLiquidity
  IN IF filters.time_period = "7d" THEN filtered
     ELSE IF filters.sort_by # "" THEN SortByCompare(filtered, filters)
     ELSE SortByVolumeDesc(filtered)

FilterRecords ==
  { [DexPair("a", "Dex Name", 100, 10, 900, 7, 3) EXCEPT !.priceChange1h = 2],
    CgCoin("b", "Cg Name", 50, 12, 30, 300),
    [DexPair("c", "Other", 20, 20, 100, 9, 1) EXCEPT !.priceChange1h = 8] }

\* Cached snapshots: at most MaxLen tokens with distinct addresses.
FilterSnapshots ==
  {snap \in UNION {[1..n -> FilterRecords] : n \in 0..MaxLen} :
     \A i, j \in DOMAIN snap :
       i # j => snap[i].token_address # snap[j].token_address}

\* What getTokens builds from req.query.
FilterOptions ==
  [min_liquidity : {0, 8}, min_volume : {0, 15},
   time_period : {"", "1h", "24h", "7d"},
   sort_by : {"", "volume", "price_change", "market_cap", "liquidity",
              "transaction_count", "name"},
   sort_order : {"", "asc", "desc"}]

FilterInit ==
  /\ SysInit
  /\ mIn = <<>>
  /\ mOut = <<>>
  /\ mPc = "input"
  /\ DInit
  /\ WsInit
  /\ HInit
  /\ fTokens \in FilterSnapshots
  /\ fFilters \in FilterOptions
  /\ fOut = <<>>
  /\ fPc = "input"

\* Mutant of ApplyFiltersCall: the list from the store is sorted in place
\* (no copy is taken before filtered.sort).
ApplyFiltersCallInPlace ==
  /\ fPc = "input"
  /\ fOut' = applyFilters(fTokens, fFilters)
  /\ fTokens' = fOut'
  /\ fPc' = "filtered"
  /\ UNCHANGED <<sysVars, mIn, mOut, mPc, dVars, wsVars, fFilters, hVars>>

\* applyFilters works on a copy ([...tokens]); filter returns new arrays and
\* sort is called on the copy, so the list from the store stays as it is.
ApplyFiltersCall ==
  /\ fPc = "input"
  /\ fOut' = applyFilters(fTokens, fFilters)
  /\ fPc' = "filtered"
  /\ UNCHANGED <<sysVars, mIn, mOut, mPc, dVars, wsVars, fTokens, fFilters, hVars>>

FilterNext == ApplyFiltersCall

SpecFilter == FilterInit /\ [][FilterNext]_vars

(***************************************************************************)
(* Paging: what TokenController.getTokens reads from req.query.limit and   *)
(* req.query.cursor, and paginateTokens.  A query string is a sequence of  *)
(* characters; <<>> is the omitted parameter (undefined and "" are both    *)
(* falsy).  NaN is the one number outside the integers the code can meet.  *)
(***************************************************************************)
NaN == -1000000

IsNaN(x) == x = NaN

DigitChars == <<"0", "1", "2", "3", "4", "5", "6", "7", "8", "9">>

IsDigit(c) == \E i \in DOMAIN DigitChars : DigitChars[i] = c

DigitValue(c) == (CHOOSE i \in DOMAIN DigitChars : DigitChars[i] = c) - 1

\* The longest prefix of s made of decimal digits.
RECURSIVE LeadingDigits(_)
LeadingDigits(s) ==
  IF s = <<>> \/ ~IsDigit(s[1]) THEN <<>>
  ELSE <<s[1]>> \o LeadingDigits(Tail(s))

\* The value of a non-empty sequence of decimal digits.
RECURSIVE DigitsValue(_)
DigitsValue(ds) ==
  IF ds = <<>> THEN 0
  ELSE 10 * DigitsValue(SubSeq(ds, 1, Len(ds) - 1)) + DigitValue(ds[Len(ds)])

\* parseInt(s): an optional sign and the leading digits; NaN when there is
\* no digit.
parseInt(s) ==
  LET neg == s # <<>> /\ s[1] = "-"
      body == IF neg THEN Tail(s) ELSE s
      ds == LeadingDigits(body)
  IN IF ds = <<>> THEN NaN
     ELSE IF neg THEN 0 - DigitsValue(ds) ELSE DigitsValue(ds)

\* Number(s): the whole string must be an optional sign and digits ("" is
\* 0); NaN otherwise.
Number(s) ==
  LET neg == s # <<>> /\ s[1] = "-"
      body == IF neg THEN Tail(s) ELSE s
      ds == LeadingDigits(body)
  IN IF s = <<>> THEN 0
     ELSE IF ds = <<>> \/ ds # body THEN NaN
     ELSE IF neg THEN 0 - DigitsValue(ds) ELSE DigitsValue(ds)

\* Number.prototype.toString() of an integer.
RECURSIVE NatToString(_)
NatToString(n) ==
  IF n < 10 THEN <<DigitChars[n + 1]>>
  ELSE NatToString(n \div 10) \o <<DigitChars[(n % 10) + 1]>>

toString(n) == IF n < 0 THEN <<"-">> \o NatToString(0 - n) ELSE NatToString(n)

\* Math.min(x, y): NaN when either is NaN.
MathMin(x, y) == IF IsNaN(x) \/ IsNaN(y) THEN NaN ELSE Min(x, y)

\* x + y on numbers: NaN when either is NaN.
NumAdd(x, y) == IF IsNaN(x) \/ IsNaN(y) THEN NaN ELSE x + y

\* x < y on numbers: false when either is NaN.
NumLess(x, y) == ~IsNaN(x) /\ ~IsNaN(y) /\ x < y

\* x || y on numbers that may be NaN (0 and NaN are falsy).
OrNumber(x, y) == IF x = 0 \/ IsNaN(x) THEN y ELSE x

\* An index argument of Array.prototype.slice on an array of len elements:
\* NaN is 0, a negative index counts from the end, both clamped.
RelativeIndex(k, len) ==
  IF IsNaN(k) THEN 0
  ELSE IF k < 0 THEN (IF len + k < 0 THEN 0 ELSE len + k)
  ELSE Min(k, len)

\* Array.prototype.slice(start, end)
slice(s, start, end) ==
  LET from == RelativeIndex(start, Len(s))
      to == RelativeIndex(end, Len(s))
  IN IF from >= to THEN <<>> ELSE SubSeq(s, from + 1, to)

\* The limit getTokens puts into FilterOptions.
QueryLimit(q) == IF q # <<>> THEN MathMin(Number(q), 100) ELSE 20

\* paginateTokens with has_more true also when endIndex = tokens.length.
paginateTokensInclusive(tokens, filters) ==
  LET limit == OrNumber(filters.limit, 20)
      cursor == IF filters.cursor # <<>> THEN parseInt(filters.cursor) ELSE 0
      endIndex == NumAdd(cursor, limit)
      more == ~IsNaN(endIndex) /\ endIndex <= Len(tokens)
  IN [tokens |-> slice(tokens, cursor, endIndex),
      next_cursor |-> IF more THEN toString(endIndex) ELSE <<>>,
      has_more |-> more,
      total_count |-> Len(tokens)]

\* paginateTokens; the timestamp field (Date.now()) is left out.  An absent
\* next_cursor is <<>>.
paginateTokens(tokens, filters) ==
  LET limit == OrNumber(filters.limit, 20)
      cursor == IF filters.cursor # <<>> THEN parseInt(filters.cursor) ELSE 0
      startIndex == cursor
      endIndex == NumAdd(startIndex, limit)
      more == NumLess(endIndex, Len(tokens))
  IN [tokens |-> slice(tokens, startIndex, endIndex),
      next_cursor |-> IF more THEN toString(endIndex) ELSE <<>>,
      has_more |-> more,
      total_count |-> Len(tokens)]

\* A filtered list of n tokens with distinct addresses.
PageToken(i) == DexToken("t" \o ToString(i), i, i, i)

PageList(n) == [i \in 1..n |-> PageToken(i)]

PageLists == {PageList(n) : n \in (0..MaxPage) \cup {LongList}}

\* Values of ?limit= : omitted, 0, in range, the maximum, above it,
\* negative, not a number.
PageLimits ==
  { <<>>, <<"0">>, <<"1">>, <<"2">>, <<"3">>, <<"1", "0", "0">>,
    <<"1", "5", "0">>, <<"-", "1">>, <<"a", "b", "c">> }

\* Values of ?cursor= on the first request.
PageCursors == { <<>>, <<"0">>, <<"2">>, <<"-", "3">>, <<"x">> }

PageInit ==
  /\ SysInit
  /\ mIn = <<>>
  /\ mOut = <<>>
  /\ mPc = "input"
  /\ DInit
  /\ WsInit
  /\ FInit
  /\ pList \in PageLists
  /\ pLimitQ \in PageLimits
  /\ pFirst \in PageCursors
  /\ pCursorQ = pFirst
  /\ pAsked = <<>>
  /\ pResp = NoResponse
  /\ pPages = <<>>
  /\ pN = 0
  /\ pPc = "request"
  /\ GInit
  /\ UInit

\* One GET /api/tokens on the list pList: the query is parsed, the page is
\* cut and sent; the client then asks again with the next_cursor it got,
\* if it got one.
GetTokensPage ==
  /\ pPc = "request"
  /\ pN < MaxPages
  /\ LET filters == [limit |-> QueryLimit(pLimitQ), cursor |-> pCursorQ]
         response == paginateTokens(pList, filters)
     IN /\ pResp' = response
        /\ pPages' = pPages \o response.tokens
        /\ pAsked' = pCursorQ
        /\ pCursorQ' = response.next_cursor
        /\ pPc' = IF response.has_more THEN "request" ELSE "done"
  /\ pN' = pN + 1
  /\ UNCHANGED <<sysVars, mIn, mOut, mPc, dVars, wsVars, fVars, pList,
                 pLimitQ, pFirst, gVars, uVars>>

PageNext == GetTokensPage

SpecPage == PageInit /\ [][PageNext]_vars

(***************************************************************************)
(* TokenController.getTokenByAddress (GET /api/tokens/:address), one       *)
(* action per await, running against the startup tick, the TTL of the      *)
(* keys and shutdown.                                                      *)
(***************************************************************************)
AddressParams == Addresses \cup {""}

\* The other harnesses and the handler's request parameter.
byAddressRest ==
  <<sysVars, mIn, mOut, mPc, dVars, wsVars, fVars, pVars, uVars>>

\* const { address } = req.params; if (!address) 400
ByAddressStart ==
  /\ server = "listening"
  /\ gPc = "idle"
  /\ \E address \in AddressParams :
       /\ gAddress' = address
       /\ IF address = ""
          THEN /\ gPc' = "done"
               /\ gStatus' = 400
          ELSE /\ gPc' = "getToken"
               /\ gStatus' = 0
  /\ UNCHANGED <<byAddressRest, gToken, gTokens, gBody>>

\* let token = await this.cacheService.getToken(address.toLowerCase())
ByAddressGetToken ==
  /\ gPc = "getToken"
  /\ \E failed \in BOOLEAN :
       LET token == getToken(toLowerCase(gAddress), failed)
       IN /\ gToken' = token
          /\ IF token.present
             THEN /\ gPc' = "done"
                  /\ gStatus' = 200
                  /\ gBody' = token.val
             ELSE /\ gPc' = "getTokens"
                  /\ UNCHANGED <<gStatus, gBody>>
  /\ UNCHANGED <<byAddressRest, gAddress, gTokens>>

\* Mutant of AddressMatches: the comparison is case-sensitive.
AddressMatchesExactly(t, address) == t.token_address = address

\* t.token_address.toLowerCase() === address.toLowerCase()
AddressMatches(t, address) ==
  toLowerCase(t.token_address) = toLowerCase(address)

\* tokens.find(t => ...): <<the first match>>, or <<>> for undefined.
FindByAddress(tokens, address) ==
  LET hits == {i \in DOMAIN tokens : AddressMatches(tokens[i], address)}
  IN IF hits = {} THEN <<>>
     ELSE <<tokens[CHOOSE i \in hits : \A j \in hits : i <= j]>>

\* const tokens = await this.cacheService.getTokens(); find; respond
ByAddressGetTokens ==
  /\ gPc = "getTokens"
  /\ \E failed \in BOOLEAN :
       LET tokens == getTokens(failed)
           foundToken == IF tokens.present
                         THEN FindByAddress(tokens.val, gAddress) ELSE <<>>
       IN /\ gTokens' = tokens
          /\ gBody' = foundToken
          /\ gStatus' = IF foundToken = <<>> THEN 404 ELSE 200
  /\ gPc' = "done"
  /\ UNCHANGED <<byAddressRest, gAddress, gToken>>

ByAddressNext ==
  \/ InitialTimerFire
  \/ \E t \in Ticks : TickGetAllTokens(t)
  \/ \E t \in Ticks : TickSetexAll(t)
  \/ \E t \in Ticks : TickSetexToken(t)
  \/ \E t \in Ticks : TickSetexFails(t)
  \/ \E t \in Ticks : TickDetect(t)
  \/ ByAddressStart
  \/ ByAddressGetToken
  \/ ByAddressGetTokens
  \/ ExpireAll
  \/ \E a \in Addresses : ExpireToken(a)
  \/ Stop
  \/ StopFinish

SpecByAddress == Init /\ [][ByAddressNext]_vars

(***************************************************************************)
(* The upstream adapters on their own: fetchFromDexScreener and            *)
(* fetchFromGeckoTerminal applied to an upstream response.  A record of    *)
(* the response keeps its address (baseToken.address, or id), <<>> when    *)
(* the field is missing, its price and its 24h volume.                     *)
(***************************************************************************)
\* The filter both adapters end with, on a token whose address is a string.
IsValidToken(token) == token.token_address # "" /\ token.price > 0

\* The map callback of fetchFromDexScreener.
DexNormalize(dsToken) ==
  DexToken(OrStr(IF dsToken.address = <<>> THEN ""
                 ELSE toLowerCase(dsToken.address[1]), ""),
           OrNum(dsToken.price, 0), OrNum(dsToken.volume, 0), 0)

\* The map callback of fetchFromGeckoTerminal, on a record that has an id.
CgNormalize(cgToken) ==
  CgToken(cgToken.address[1], OrNum(cgToken.price, 0), OrNum(cgToken.volume, 0), 0)

\* pairs.slice(0, batchSize).map(...)
DexMapped(pairs) ==
  [i \in DOMAIN SliceTo(pairs, batchSize) |-> DexNormalize(pairs[i])]

\* tokens.map(...), on records that all have an id.
CgMapped(tokens) == [i \in DOMAIN tokens |-> CgNormalize(tokens[i])]

\* The thunk of fetchFromDexScreener once the response has arrived.
fetchFromDexScreener(pairs) ==
  [threw |-> FALSE,
   tokens |-> SelectSeq(DexMapped(pairs), IsValidToken)]

\* The thunk of fetchFromGeckoTerminal once the response has arrived.  A
\* record without id is mapped to a token whose token_address is undefined;
\* the filter, outside the callback's try, reads .length of it and throws.
fetchFromGeckoTerminal(tokens) ==
  IF \E i \in DOMAIN tokens : tokens[i].address = <<>>
  THEN [threw |-> TRUE, tokens |-> <<>>]
  ELSE [threw |-> FALSE, tokens |-> SelectSeq(CgMapped(tokens), IsValidToken)]

UpstreamRecords ==
  [address : {<<>>, <<"">>, <<"a">>, <<"A">>, <<"b">>},
   price : {0 - 1, 0, 5},
   volume : {10}]

\* A response of n valid records with distinct addresses.
ManyValid(n) ==
  [i \in 1..n |-> [address |-> <<"t" \o ToString(i)>>, price |-> i, volume |-> 10]]

UpstreamResponses ==
  UNION {[1..n -> UpstreamRecords] : n \in 0..MaxLen} \cup {ManyValid(ManyRecords)}

FetchInit ==
  /\ SysInit
  /\ mIn = <<>>
  /\ mOut = <<>>
  /\ mPc = "input"
  /\ DInit
  /\ WsInit
  /\ FInit
  /\ PInit
  /\ GInit
  /\ uSource \in Tags
  /\ uResponse \in UpstreamResponses
  /\ uOut = <<>>
  /\ uAttempts = 0
  /\ uPc = "fetching"
  /\ uPermits = EnoughPermits
  /\ uCalls = <<>>

fetchRest == <<sysVars, mIn, mOut, mPc, dVars, wsVars, fVars, pVars, gVars>>

Call(op) == [op |-> op, tag |-> uSource, attempt |-> uAttempts']

\* Mutant of FetchCheckLimit: with no permit left the thunk goes on to the
\* request all the same.
FetchCheckLimitGoesOn ==
  /\ uPc = "fetching"
  /\ uAttempts' = uAttempts + 1
  /\ IF uPermits[uSource] > 0
     THEN /\ uPermits' = [uPermits EXCEPT ![uSource] = @ - 1]
          /\ uCalls' = Append(uCalls, Call("acquired"))
     ELSE /\ uCalls' = Append(uCalls, Call("RateLimited"))
          /\ UNCHANGED uPermits
  /\ uPc' = "permitted"
  /\ UNCHANGED <<fetchRest, uSource, uResponse, uOut>>

\* The thunk starts: await this.rateLimiter.checkLimit(tag).  The limiter
\* takes one permit of the tag's bucket, or fails with RateLimited at once
\* when the bucket is empty; the failure leaves the thunk, to the retry
\* wrapper.
FetchCheckLimit ==
  /\ uPc = "fetching"
  /\ uAttempts' = uAttempts + 1
  /\ IF uPermits[uSource] > 0
     THEN /\ uPermits' = [uPermits EXCEPT ![uSource] = @ - 1]
          /\ uCalls' = Append(uCalls, Call("acquired"))
          /\ uPc' = "permitted"
     ELSE /\ uCalls' = Append(uCalls, Call("RateLimited"))
          /\ uPc' = "threw"
          /\ UNCHANGED uPermits
  /\ UNCHANGED <<fetchRest, uSource, uResponse, uOut>>

\* The rest of the thunk passed to ExponentialBackoff.retry: the GET and
\* the mapping of the response.
FetchAttempt ==
  /\ uPc = "permitted"
  /\ uCalls' = Append(uCalls, [op |-> "GET", tag |-> uSource, attempt |-> uAttempts])
  /\ LET r == IF uSource = "dexscreener" THEN fetchFromDexScreener(uResponse)
              ELSE fetchFromGeckoTerminal(uResponse)
     IN IF r.threw
        THEN /\ uPc' = "threw"
             /\ UNCHANGED uOut
        ELSE /\ uPc' = "fulfilled"
             /\ uOut' = r.tokens
  /\ UNCHANGED <<fetchRest, uSource, uResponse, uAttempts, uPermits>>

\* ExponentialBackoff.retry runs the thunk again (the upstream answers with
\* the same records).
FetchRetry ==
  /\ uPc = "threw"
  /\ uAttempts < retryAttempts
  /\ uPc' = "fetching"
  /\ UNCHANGED <<fetchRest, uSource, uResponse, uOut, uAttempts, uPermits, uCalls>>

\* ExponentialBackoff.retry gives up: the fetch rejects with the error.
FetchReject ==
  /\ uPc = "threw"
  /\ uPc' = "rejected"
  /\ UNCHANGED <<fetchRest, uSource, uResponse, uOut, uAttempts, uPermits, uCalls>>

FetchNext ==
  \/ FetchCheckLimit
  \/ FetchAttempt
  \/ FetchRetry
  \/ FetchReject

SpecFetch == FetchInit /\ [][FetchNext]_vars

\* The adapters with buckets that may be empty or run out during a fetch.
PermitInit ==
  /\ SysInit
  /\ mIn = <<>>
  /\ mOut = <<>>
  /\ mPc = "input"
  /\ DInit
  /\ WsInit
  /\ FInit
  /\ PInit
  /\ GInit
  /\ uSource \in Tags
  /\ uResponse \in UpstreamResponses
  /\ uOut = <<>>
  /\ uAttempts = 0
  /\ uPc = "fetching"
  /\ uPermits \in [Tags -> 0..MaxPermits]
  /\ uCalls = <<>>

SpecPermit == PermitInit /\ [][FetchNext]_vars

(***************************************************************************)
(* The readers of a snapshot and the merger together: each is given its    *)
(* inputs as in its own harness, and all of them may run.                  *)
(***************************************************************************)
ReadersInit == FilterInit \/ PageInit \/ DetectInit \/ MergeInit

ReadersNext == ApplyFiltersCall \/ GetTokensPage \/ DetectCall \/ MergeCall

SpecReaders == ReadersInit /\ [][ReadersNext]_vars

(***************************************************************************)
(* Properties.                                                             *)
(***************************************************************************)
\* Tick t ran to the end of the try block.
TickSucceeded(t) == tickPc[t] = "done" /\ tickError[t] = "none"

TickWrote(t) == cacheWriter = [by |-> "tick", id |-> t]

EmittedBy(t, kind, addr) ==
  \E i \in DOMAIN emitted :
    /\ emitted[i].tick = t
    /\ emitted[i].kind = kind
    /\ emitted[i].address = addr

EmittedAny(t) == \E i \in DOMAIN emitted : emitted[i].tick = t

\* The tags of the adapters that were fulfilled in tick t.
SucceededTags(t) ==
  (IF settled[t][1].ok THEN {"dexscreener"} ELSE {})
  \cup (IF settled[t][2].ok THEN {"coingecko"} ELSE {})

\* The values of the adapters that were fulfilled in tick t, in order.
Survivors(t) ==
  (IF settled[t][1].ok THEN <<settled[t][1].val>> ELSE <<>>)
  \o (IF settled[t][2].ok THEN <<settled[t][2].val>> ELSE <<>>)

PriceMoved(prev, cur) ==
  prev.price > 0 /\ cur.price > 0
  /\ 100 * Abs(cur.price - prev.price) > 5 * prev.price

VolumeDoubled(prev, cur) ==
  prev.volume24h > 0 /\ cur.volume24h > 2 * prev.volume24h

\* C1: when ticks t-1 and t both succeed, tick t started after tick t-1
\* had completed, and the store held tick t-1's snapshot just before tick
\* t's put, tick t broadcasts a price_alert for
\* every token whose price moved by more than 5% between the two snapshots,
\* and a volume_alert for every token whose volume more than doubled.
C1_AlertAgainstPreviousSnapshot ==
  \A t \in Ticks :
    (/\ t > 1
     /\ TickSucceeded(t - 1)
     /\ TickSucceeded(t)
     /\ startedAlone[t]
     /\ heldBeforePut[t] = Present(fresh[t - 1])
     /\ cachedTokens[t].present)
    => \A i \in DOMAIN fresh[t - 1], j \in DOMAIN fresh[t] :
         fresh[t - 1][i].token_address = fresh[t][j].token_address
         => /\ PriceMoved(fresh[t - 1][i], fresh[t][j])
               => EmittedBy(t, "price_alert", fresh[t][j].token_address)
            /\ VolumeDoubled(fresh[t - 1][i], fresh[t][j])
               => EmittedBy(t, "volume_alert", fresh[t][j].token_address)

\* C2: at no time are two executions of updateTokenData in progress.
C2_SingleFlight ==
  Cardinality({t \in Ticks : tickPc[t] \notin {"idle", "done"}}) <= 1

\* C3: a tick in which both adapters were rejected does not write
\* tokens:all and broadcasts no batch_update.
C3_AllFailedTickWritesNothing ==
  \A t \in Ticks :
    (tickPc[t] \notin {"idle", "getAllTokens"} /\ SucceededTags(t) = {})
    => /\ ~TickWrote(t)
       /\ ~EmittedBy(t, "batch_update", "")

\* C4: when two ticks have both completed successfully, tokens:all does not
\* hold the snapshot of the one that started earlier.
C4_LaterTickSupersedes ==
  \A t1, t2 \in Ticks :
    (t1 < t2 /\ TickSucceeded(t1) /\ TickSucceeded(t2)) => ~TickWrote(t1)

\* C5 as stated: tokens:all is never written by a request handler.
C5_OnlyTickWrites == cacheWriter.by # "request"

\* C5 amended: a GET /api/tokens handler fetches and writes tokens:all only
\* when its own read of tokens:all was a miss; a handler that read a
\* snapshot never writes.
C5_RequestWritesOnlyOnMiss ==
  \A r \in Reqs :
    (\/ reqPc[r] \in {"getAllTokens", "setTokens", "setTokenKeys"}
     \/ cacheWriter = [by |-> "request", id |-> r])
    => reqMiss[r]

\* A request missed, fetched, and its snapshot is what tokens:all holds.
C5_Witness ==
  \E r \in Reqs :
    /\ cacheWriter = [by |-> "request", id |-> r]
    /\ reqMiss[r]
    /\ reqPc[r] = "done"
    /\ reqStatus[r] = 200
    /\ cacheAll = Present(reqTokens[r])

\* C6: a tick whose setTokens failed has broadcast nothing, and tokens:all
\* does not hold that tick's snapshot.
C6_FailedPutLeavesPrevious ==
  \A t \in Ticks :
    (tickPc[t] = "done" /\ tickError[t] = "setTokens")
    => /\ ~EmittedAny(t)
       /\ ~TickWrote(t)

\* C7: a tick in which exactly one adapter was rejected is not aborted by
\* that rejection; its snapshot is the merge of the fulfilled adapter's
\* list alone, every token's source holds only the fulfilled adapter's
\* tag, and what the tick writes under tokens:all is that snapshot.
C7_PartialFailure ==
  \A t \in Ticks :
    (tickPc[t] \notin {"idle", "getAllTokens"}
     /\ Cardinality(SucceededTags(t)) = 1)
    => /\ tickError[t] # "getAllTokens"
       /\ fresh[t] = mergeTokens(Survivors(t))
       /\ \A i \in DOMAIN fresh[t] :
            Range(fresh[t][i].source) \subseteq SucceededTags(t)
       /\ TickWrote(t) => cacheAll = Present(fresh[t])

\* DexScreener was rejected, CoinGecko fulfilled, and the tick stored and
\* broadcast the snapshot.
C7_Witness ==
  \E t \in Ticks :
    /\ TickSucceeded(t)
    /\ SucceededTags(t) = {"coingecko"}
    /\ fresh[t] # <<>>
    /\ TickWrote(t)
    /\ EmittedBy(t, "batch_update", "")

\* C8: updateTokenData never rejects, whatever failed inside it, and the
\* interval stays armed until stop() is called.
C8_TickNeverRejects ==
  /\ \A t \in Ticks :
       /\ tickResult[t] # "rejected"
       /\ tickPc[t] = "done" => tickResult[t] = "resolved"
  /\ stopPc = "idle" => IntervalMayStart

\* The first tick failed in setTokens, and the interval fired a later tick
\* which completed.
C8_Witness ==
  /\ tickPc[1] = "done"
  /\ tickError[1] = "setTokens"
  /\ tickResult[1] = "resolved"
  /\ TickSucceeded(2)
  /\ stopPc = "idle"

\* C9: no tick starts after stop() has been called.
C9_NoTickAfterStop == \A t \in Ticks : ~afterStop[t]

\* C10: the addresses of a mergeTokens result are pairwise distinct when
\* compared case-insensitively.
C10_AddressesDistinct ==
  mPc = "merged"
  => \A i, j \in DOMAIN mOut :
       i # j => toLowerCase(mOut[i].token_address)
                  # toLowerCase(mOut[j].token_address)

\* One source list held the same address twice in different case, and the
\* result has one record.
C10_Witness ==
  /\ mPc = "merged"
  /\ Len(mOut) = 1
  /\ \E k \in DOMAIN mIn :
       \E i, j \in DOMAIN mIn[k] :
         /\ i # j
         /\ mIn[k][i].token_address # mIn[k][j].token_address
         /\ toLowerCase(mIn[k][i].token_address)
              = toLowerCase(mIn[k][j].token_address)

\* The input records of a mergeTokens call filed under the key of `token`.
AddressGroup(tokensArrays, token) ==
  {k \in DOMAIN Flat(tokensArrays) :
     MergeKey(Flat(tokensArrays)[k]) = MergeKey(token)}

\* C11: in a mergeTokens result, is_merged is true exactly for the tokens
\* whose address group had at least two input records, every token with
\* is_merged true has at least two distinct tags in source, and no token has
\* an empty source.
C11_MergedFlagAndSources ==
  mPc = "merged"
  => \A i \in DOMAIN mOut :
       /\ mOut[i].is_merged <=> Cardinality(AddressGroup(mIn, mOut[i])) >= 2
       /\ mOut[i].is_merged => Cardinality(Range(mOut[i].source)) >= 2
       /\ mOut[i].source # <<>>

\* mergeTokens was called with one DexScreener record and then one
\* CoinGecko record filed under the same key.
FusedPair ==
  /\ mPc = "merged"
  /\ Len(mIn) = 2
  /\ Len(mIn[1]) = 1
  /\ Len(mIn[2]) = 1
  /\ mIn[1][1].source = <<"dexscreener">>
  /\ mIn[2][1].source = <<"coingecko">>
  /\ MergeKey(mIn[1][1]) # ""
  /\ MergeKey(mIn[1][1]) = MergeKey(mIn[2][1])

SameAddressPair ==
  /\ mPc = "merged"
  /\ Len(mIn) = 2
  /\ Len(mIn[1]) = 1
  /\ Len(mIn[2]) = 1
  /\ mIn[1][1].token_address # ""
  /\ mIn[1][1].token_address = mIn[2][1].token_address

\* C13: for two records a and b with the same address, mergeTokens([[a],[b]])
\* and mergeTokens([[b],[a]]) give one record each, with the same set of
\* sources, the same address and the same name.
C13_MergeOrderIndependent ==
  SameAddressPair
  => LET swapped == mergeTokens(<<mIn[2], mIn[1]>>)
     IN /\ Len(mOut) = 1
        /\ Len(swapped) = 1
        /\ Range(mOut[1].source) = Range(swapped[1].source)
        /\ mOut[1].token_address = swapped[1].token_address
        /\ mOut[1].token_name = swapped[1].token_name

\* Tick t's setTokens succeeded and every key it wrote still holds what it
\* wrote: no key has expired and no other put has replaced it.
PutStands(t) ==
  /\ tickPc[t] \in {"detect", "done"}
  /\ tickError[t] = "none"
  /\ redisStatus = "open"
  /\ TickWrote(t)
  /\ cacheAll = Present(fresh[t])
  /\ \A i \in DOMAIN Individually(fresh[t]) :
       cacheTok[fresh[t][i].token_address] = Present(<<fresh[t][i]>>)

\* C14: while a tick's put stands, getToken returns token t for every token
\* among the first 100 of the snapshot and every upper/lower-case variant
\* of its address.
C14_PutGetTokenRoundTrip ==
  \A t \in Ticks :
    PutStands(t)
    => \A i \in DOMAIN Individually(fresh[t]), a \in Addresses :
         toLowerCase(a) = toLowerCase(fresh[t][i].token_address)
         => getToken(a, FALSE) = Present(<<fresh[t][i]>>)

\* The detector broadcast an alert of this kind about this address.
Alerted(kind, addr) ==
  \E i \in DOMAIN dOut : dOut[i].kind = kind /\ dOut[i].address = addr

\* C15: for every token in both the previous and the current snapshot, a
\* price_alert is emitted iff both prices are positive and the price moved
\* by more than 5% of the previous price, a market_cap_alert iff both market
\* caps are positive and the change is more than 10%, a liquidity_alert iff
\* both liquidities are positive and the change is more than 20%; a change
\* exactly at the threshold and a previous value of 0 emit nothing.
C15_ThresholdsExact ==
  dPc = "detected"
  => \A i \in DOMAIN dPrev, j \in DOMAIN dCur :
       dPrev[i].token_address = dCur[j].token_address
       => /\ Alerted("price_alert", dCur[j].token_address)
             <=> (/\ dPrev[i].price > 0
                  /\ dCur[j].price > 0
                  /\ 100 * Abs(dCur[j].price - dPrev[i].price)
                       > 5 * dPrev[i].price)
          /\ Alerted("market_cap_alert", dCur[j].token_address)
             <=> (/\ dPrev[i].marketCap > 0
                  /\ dCur[j].marketCap > 0
                  /\ 100 * Abs(dCur[j].marketCap - dPrev[i].marketCap)
                       > 10 * dPrev[i].marketCap)
          /\ Alerted("liquidity_alert", dCur[j].token_address)
             <=> (/\ dPrev[i].liquidity > 0
                  /\ dCur[j].liquidity > 0
                  /\ 100 * Abs(dCur[j].liquidity - dPrev[i].liquidity)
                       > 20 * dPrev[i].liquidity)

\* The price moved by exactly 5%, the market cap by exactly 10% and the
\* liquidity by exactly 20%, and none of the three alerts was emitted, while
\* another token's price moved by 20% and was announced.
C15_Witness ==
  /\ dPc = "detected"
  /\ \E i \in DOMAIN dPrev, j \in DOMAIN dCur :
       /\ dPrev[i].token_address = dCur[j].token_address
       /\ dPrev[i].price = 100 /\ dCur[j].price = 105
       /\ dPrev[i].marketCap = 500 /\ dCur[j].marketCap = 550
       /\ dPrev[i].liquidity = 10 /\ dCur[j].liquidity = 12
       /\ ~Alerted("price_alert", dCur[j].token_address)
       /\ ~Alerted("market_cap_alert", dCur[j].token_address)
       /\ ~Alerted("liquidity_alert", dCur[j].token_address)
  /\ \E i \in DOMAIN dPrev, j \in DOMAIN dCur :
       /\ dPrev[i].token_address = dCur[j].token_address
       /\ dPrev[i].price = 50 /\ dCur[j].price = 60
       /\ Alerted("price_alert", dCur[j].token_address)

\* C16: every alert the detector emits is about an address that is in the
\* previous snapshot and in the current snapshot.
C16_NoAlertForNewOrGone ==
  dPc = "detected"
  => \A k \in DOMAIN dOut :
       /\ \E i \in DOMAIN dPrev : dPrev[i].token_address = dOut[k].address
       /\ \E j \in DOMAIN dCur : dCur[j].token_address = dOut[k].address

\* One token of the current snapshot is new, and the alerts emitted are
\* all about the token that is in both snapshots.
C16_Witness ==
  /\ dPc = "detected"
  /\ dOut # <<>>
  /\ \E j \in DOMAIN dCur :
       \A i \in DOMAIN dPrev : dPrev[i].token_address # dCur[j].token_address
  /\ \A k \in DOMAIN dOut :
       \E i \in DOMAIN dPrev : dPrev[i].token_address = dOut[k].address

AlertKinds ==
  {"price_alert", "volume_alert", "market_cap_alert", "liquidity_alert"}

\* The positions of the messages this step emitted.
NewlySent == (DOMAIN sent') \ (DOMAIN sent)

\* Client c is connected and has the lowercased address in its set.
Subscribed(c, addr) ==
  /\ connectedClients[c].present
  /\ toLowerCase(addr) \in connectedClients[c].val

\* C17: whenever an alert of any kind about address a is emitted, every
\* connected client whose subscription set holds a is sent a
\* subscribed_token_update about a by the same broadcast.
C17_AlertsReachSubscribers ==
  [][\A k \in NewlySent :
       (sent'[k].to = ToAll /\ sent'[k].event \in AlertKinds)
       => \A c \in Conns :
            Subscribed(c, sent'[k].address)
            => \E k2 \in NewlySent :
                 sent'[k2] = [event |-> "subscribed_token_update", to |-> c,
                              address |-> sent'[k].address]]_vars

\* C18: a subscribed_token_update about address a goes to client c only if,
\* when it is sent, c is connected and the lowercased a is in c's
\* subscription set.
C18_OnlyToSubscribers ==
  [][\A k \in NewlySent :
       sent'[k].event = "subscribed_token_update"
       => Subscribed(sent'[k].to, sent'[k].address)]_vars

\* A client was sent an update about an address, is no longer subscribed
\* to it (it unsubscribed or disconnected), and a later price alert about
\* the same address brought it no update.
C18_Witness ==
  \E i, j \in DOMAIN sent :
    /\ i < j
    /\ sent[i].event = "subscribed_token_update"
    /\ sent[j].event = "price_alert"
    /\ toLowerCase(sent[j].address) = toLowerCase(sent[i].address)
    /\ ~Subscribed(sent[i].to, sent[i].address)
    /\ \A k \in DOMAIN sent :
         k > j => ~(sent[k].event = "subscribed_token_update"
                    /\ sent[k].to = sent[i].to)

\* The positions in the emitted messages of tick t's batch_update events.
BatchUpdatesOf(t) ==
  {i \in DOMAIN emitted :
     emitted[i].tick = t /\ emitted[i].kind = "batch_update"}

\* Tick t's setTokens has returned normally.
PutSucceeded(t) == tickPc[t] \in {"detect", "done"} /\ tickError[t] = "none"

C20_SortOrderDefaultsToDesc ==
  (/\ fPc = "filtered"
   /\ fFilters.sort_by # ""
   /\ fFilters.sort_order = ""
   /\ fFilters.time_period # "7d")
  => \A i, j \in DOMAIN fOut :
       i < j => SortValue(fOut[i], fFilters) >= SortValue(fOut[j], fFilters)

\* The list is in the order mergeTokens leaves a snapshot in.
VolumeSorted(tokens) ==
  \A i, j \in DOMAIN tokens :
    i < j => tokens[i].volume24h >= tokens[j].volume24h

\* C21: for a stored snapshot and any other filters, applyFilters with
\* time_period = 7d returns the list it returns with time_period omitted
\* (same tokens, same order, hence the same total_count).
C21_SevenDaysIsNoOp ==
  (/\ fPc = "filtered"
   /\ fFilters.time_period = "7d"
   /\ VolumeSorted(fTokens))
  => fOut = applyFilters(fTokens, [fFilters EXCEPT !.time_period = ""])

\* The page size of the walk, when ?limit= is a number from 1 to 100.
PageSizeInRange ==
  /\ pLimitQ # <<>>
  /\ Number(pLimitQ) \in 1..100

\* The walk started at cursor 0 (omitted, or "0").
FromCursorZero == pFirst = <<>> \/ pFirst = <<"0">>

\* The cursor of the last request answered, as a number.
AskedCursor == IF pAsked = <<>> THEN 0 ELSE parseInt(pAsked)

C23_AtMostHundredTokens ==
  pN >= 1 =>
    /\ Len(pResp.tokens) <= 100
    /\ (pLimitQ = <<>> => Len(pResp.tokens) <= 20)

\* The tokens of a read of tokens:all that match the address.
SnapshotMatches(cached, address) ==
  IF cached.present
  THEN {i \in DOMAIN cached.val :
          toLowerCase(cached.val[i].token_address) = toLowerCase(address)}
  ELSE {}

\* What a finished GET /api/tokens/:address has answered: 400 when the
\* parameter was missing; otherwise 200 with the token its read of the
\* per-token key returned when that read returned one; otherwise 200 with a
\* token of the snapshot it read whose address equals the parameter
\* case-insensitively when there is one; otherwise 404.  A token sent always
\* matches the parameter case-insensitively.
ByAddressAnswered ==
  gPc = "done" =>
    /\ (gAddress = "") => (gStatus = 400 /\ gBody = <<>>)
    /\ (gAddress # "" /\ gToken.present) => (gStatus = 200 /\ gBody = gToken.val)
    /\ (gAddress # "" /\ ~gToken.present /\ SnapshotMatches(gTokens, gAddress) # {})
         => /\ gStatus = 200
            /\ \E i \in SnapshotMatches(gTokens, gAddress) :
                 gBody = <<gTokens.val[i]>>
    /\ (gAddress # "" /\ ~gToken.present /\ SnapshotMatches(gTokens, gAddress) = {})
         => (gStatus = 404 /\ gBody = <<>>)
    /\ (gBody # <<>>) =>
         toLowerCase(gBody[1].token_address) = toLowerCase(gAddress)

\* The per-token key missed and the snapshot held the token under another
\* case than the parameter's.
C24_Witness ==
  /\ gPc = "done"
  /\ gStatus = 200
  /\ ~gToken.present
  /\ gBody # <<>>
  /\ gBody[1].token_address # gAddress

\* C24: every step leaves getTokenByAddress with the answer described by
\* ByAddressAnswered (the token matching case-insensitively, from the
\* per-token key when the read returned one and otherwise from the snapshot;
\* 404 when neither has it; 400 when the parameter is missing), and no step
\* of the handler writes the store.
C24_ByAddressLookup ==
  [][/\ ByAddressAnswered'
     /\ (gPc' # gPc) => UNCHANGED <<cacheAll, cacheWriter, cacheTok>>]_vars

\* The lists dataAggregator.getAllTokens() can resolve to.
FetchedLists ==
  {getAllTokens(d, c).tokens : d \in DexOutcomes, c \in CgOutcomes}

\* C25: when the handler's read of tokens:all returns a snapshot it answers
\* 200 from that snapshot at once, calling neither the aggregator nor
\* setTokens (the store is left as it is); when the read returns none it
\* calls the aggregator, keeps the list fetched, puts exactly that list
\* under tokens:all, and only after setTokens has returned answers 200,
\* from that list.  (A rejected put, or a fetch that throws, ends the
\* request with 500 instead.)
C25_ReadThroughOnMiss ==
  [][\A r \in Reqs :
       /\ (reqPc[r] = "getTokens" /\ reqPc'[r] # "getTokens")
            => IF reqMiss'[r]
               THEN /\ reqPc'[r] = "getAllTokens"
                    /\ reqStatus'[r] = 0
               ELSE /\ reqPc'[r] = "done"
                    /\ reqStatus'[r] = 200
                    /\ reqTokens'[r] = cacheAll.val
                    /\ UNCHANGED <<cacheAll, cacheWriter, cacheTok>>
       /\ (reqPc[r] = "getAllTokens" /\ reqPc'[r] # "getAllTokens")
            => \/ reqStatus'[r] = 500
               \/ /\ reqPc'[r] = "setTokens"
                  /\ reqTokens'[r] \in FetchedLists
                  /\ UNCHANGED <<cacheAll, cacheWriter, cacheTok>>
       /\ (reqPc[r] = "setTokens" /\ reqPc'[r] # "setTokens")
            => \/ reqStatus'[r] = 500
               \/ /\ cacheAll' = Present(reqTokens[r])
                  /\ reqTokens'[r] = reqTokens[r]
       /\ (reqStatus[r] = 0 /\ reqStatus'[r] = 200 /\ reqMiss[r])
            => /\ reqPc[r] \in {"setTokens", "setTokenKeys"}
               /\ reqTokens'[r] = reqTokens[r]
       /\ (reqPc[r] \in {"getAllTokens", "setTokens", "setTokenKeys"})
            => reqMiss[r]]_vars

\* A request that found no snapshot has answered 200 from a non-empty list
\* it fetched and stored.
C25_Witness ==
  \E r \in Reqs :
    /\ reqMiss[r]
    /\ reqPc[r] = "done"
    /\ reqStatus[r] = 200
    /\ reqTokens[r] # <<>>
    /\ cacheAll = Present(reqTokens[r])
    /\ cacheWriter = [by |-> "request", id |-> r]

\* C26: a fetch of either adapter that resolved returned at most batchSize
\* tokens, however many records the upstream response held.
C26_AtMostBatchSize ==
  uPc = "fulfilled" => Len(uOut) <= batchSize

\* An upstream record the adapters must accept: an address that is present
\* and not empty, and a price above 0.
IsValidRecord(r) == r.address # <<>> /\ r.address # <<"">> /\ r.price > 0

\* C27: a response holding records with a missing or empty address or a
\* price <= 0 never makes the thunk throw (so the fetch neither fails nor is
\* run again); every token returned has a non-empty address and a price
\* above 0; and every valid record among the first batchSize records of the
\* response is returned.
C27_BadRecordsDroppedSilently ==
  /\ uPc \notin {"threw", "rejected"}
  /\ uAttempts <= 1
  /\ uPc = "fulfilled" =>
       /\ \A i \in DOMAIN uOut : IsValidToken(uOut[i])
       /\ \A i \in DOMAIN uResponse :
            (i <= batchSize /\ IsValidRecord(uResponse[i]))
            => \E j \in DOMAIN uOut :
                 /\ toLowerCase(uOut[j].token_address)
                      = toLowerCase(uResponse[i].address[1])
                 /\ uOut[j].price = uResponse[i].price

\* C28: a tick that has handed an event (batch_update or alert) to the
\* broadcaster has completed its put and has run its change detection.
C28_EventsAfterPutAndDetect ==
  \A t \in Ticks :
    EmittedAny(t) => (PutSucceeded(t) /\ tickPc[t] = "done")

\* C29: the events are emitted in the order of their ticks: no event of a
\* later tick precedes an event of an earlier tick.
C29_EventsInTickOrder ==
  \A i, j \in DOMAIN emitted :
    i < j => emitted[i].tick <= emitted[j].tick

\* Tick t is at an await of a cache operation (setex of setTokens, or the
\* get of detectSignificantChanges).
AtCacheOperation(t) == tickPc[t] \in {"setTokens", "setTokenKeys", "detect"}

\* C30: once stop() has closed the store connection, no tick that was
\* started before stop() performs a cache read or write, and the connection
\* stays closed.
C30_CloseAfterTickCompleted ==
  [][redisStatus = "end" =>
       /\ redisStatus' = "end"
       /\ \A t \in Ticks :
            (~afterStop[t] /\ AtCacheOperation(t))
            => (tickPc'[t] = tickPc[t] /\ keyIdx'[t] = keyIdx[t])]_vars

\* The value the tie-break rule asks for: the preferred record's, unless it
\* is 0 and the other record's is not.
FallbackNum(preferred, other) ==
  IF preferred = 0 /\ other # 0 THEN other ELSE preferred

\* C31: fusing a DexScreener record with a CoinGecko record of the same
\* address, every field takes the preferred record's value unless that
\* value is 0 and the other record's is not, and then the other record's:
\* price, volume24h, liquidity and transaction_count prefer the DexScreener
\* record, marketCap and the 24h percentage the CoinGecko record.
C31_FallbackForEveryField ==
  FusedPair
  => LET dex == mIn[1][1]
         cg == mIn[2][1]
     IN /\ Len(mOut) = 1
        /\ mOut[1].price = FallbackNum(dex.price, cg.price)
        /\ mOut[1].volume24h = FallbackNum(dex.volume24h, cg.volume24h)
        /\ mOut[1].liquidity = FallbackNum(dex.liquidity, cg.liquidity)
        /\ mOut[1].transaction_count
             = FallbackNum(dex.transaction_count, cg.transaction_count)
        /\ mOut[1].marketCap = FallbackNum(cg.marketCap, dex.marketCap)
        /\ mOut[1].priceChangePercentage24h
             = FallbackNum(cg.priceChangePercentage24h,
                           dex.priceChangePercentage24h)

\* mergeTokens was called with one list holding one valid record (non-empty
\* address, price above 0).
SingleValid ==
  /\ mPc = "merged"
  /\ Len(mIn) = 1
  /\ Len(mIn[1]) = 1
  /\ mIn[1][1].token_address # ""
  /\ mIn[1][1].price > 0

\* C33: for a valid record t, mergeTokens([[t]]) is the one-element list
\* holding t with its address lowercased and is_merged false, every other
\* field as in t.
C33_SingleRecordCanonical ==
  SingleValid
  => mOut = <<[mIn[1][1] EXCEPT !.token_address = toLowerCase(@),
                                !.is_merged = FALSE]>>

Max(a, b) == IF a > b THEN a ELSE b

\* C34: fusing a DexScreener record with a CoinGecko record of the same
\* address gives one record whose liquidity is the higher of the two
\* liquidities and whose volume24h is the sum of the two volumes, with both
\* tags in source and is_merged true.
C34_HigherLiquiditySummedVolume ==
  FusedPair
  => /\ Len(mOut) = 1
     /\ mOut[1].liquidity = Max(mIn[1][1].liquidity, mIn[2][1].liquidity)
     /\ mOut[1].volume24h = mIn[1][1].volume24h + mIn[2][1].volume24h
     /\ Range(mOut[1].source) = {"dexscreener", "coingecko"}
     /\ mOut[1].is_merged

\* The distinct non-empty lowercased addresses of the records given to
\* mergeTokens.
InputAddresses ==
  {toLowerCase(t.token_address) : t \in Range(Flat(mIn))} \ {""}

\* C32: the list mergeTokens returns, which is the snapshot a tick or a
\* read-through writes, is sorted by volume24h non-increasing, has at most
\* maxTokens tokens, and has as many tokens as the smaller of maxTokens and
\* the number of distinct non-empty lowercased addresses in the input.
C32_SortedAndTruncated ==
  mPc = "merged"
  => /\ VolumeSorted(mOut)
     /\ Len(mOut) <= maxTokens
     /\ Len(mOut) = Min(maxTokens, Cardinality(InputAddresses))

\* More than maxTokens distinct addresses were merged, and the list was cut
\* to the maxTokens records of highest volume.
C32_Witness ==
  /\ mPc = "merged"
  /\ Cardinality(InputAddresses) > maxTokens
  /\ Len(mOut) = maxTokens
  /\ mOut[1].volume24h = TooMany
  /\ mOut[maxTokens].volume24h = 2

\* The number of alerts of this kind about this address the detector
\* broadcast.
AlertCount(kind, addr) ==
  Cardinality({k \in DOMAIN dOut : dOut[k].kind = kind /\ dOut[k].address = addr})

\* C35: for every token in both the previous and the current snapshot, a
\* volume_alert is emitted iff the previous volume is positive and the
\* current volume is more than twice the previous one, whatever the other
\* three checks decide (exactly double and a decrease emit nothing), and
\* every kind of alert is emitted at most once per token.
C35_VolumeSpikeOncePerKind ==
  dPc = "detected"
  => /\ \A i \in DOMAIN dPrev, j \in DOMAIN dCur :
          dPrev[i].token_address = dCur[j].token_address
          => (Alerted("volume_alert", dCur[j].token_address)
              <=> (/\ dPrev[i].volume24h > 0
                   /\ dCur[j].volume24h > 2 * dPrev[i].volume24h))
     /\ \A kind \in AlertKinds, j \in DOMAIN dCur :
          AlertCount(kind, dCur[j].token_address) <= 1

\* One token's volume exactly doubled and nothing was emitted about its
\* volume; another token's volume more than doubled while its price moved
\* by 20%, and one volume_alert and one price_alert were emitted about it.
C35_Witness ==
  /\ dPc = "detected"
  /\ \E i \in DOMAIN dPrev, j \in DOMAIN dCur :
       /\ dPrev[i].token_address = dCur[j].token_address
       /\ dPrev[i].volume24h = 10 /\ dCur[j].volume24h = 20
       /\ AlertCount("volume_alert", dCur[j].token_address) = 0
  /\ \E i \in DOMAIN dPrev, j \in DOMAIN dCur :
       /\ dPrev[i].token_address = dCur[j].token_address
       /\ dPrev[i].volume24h = 5 /\ dCur[j].volume24h = 11
       /\ AlertCount("volume_alert", dCur[j].token_address) = 1
       /\ AlertCount("price_alert", dCur[j].token_address) = 1

\* The ids that have an entry in the clients map.
InMap == {c \in Conns : connectedClients[c].present}

\* C37: in every step of the broadcaster, every address stored in a
\* client's subscription set is lowercase; at most one id gets or loses
\* its entry; an id that gets its entry (by connecting) gets it with an
\* empty set, so that subscribe_tokens and unsubscribe_tokens of an id with
\* no entry store nothing; getConnectedClientsCount is the number of ids
\* with an entry; and a connect or a disconnect leaves the other clients'
\* sets as they were.
C37_OneEntryPerConnection ==
  [][/\ \A c \in InMap' :
          \A a \in connectedClients'[c].val : a = toLowerCase(a)
     /\ Cardinality((InMap' \ InMap) \cup (InMap \ InMap')) <= 1
     /\ \A c \in InMap' \ InMap : connectedClients'[c].val = {}
     /\ getConnectedClientsCount' = Cardinality(InMap')
     /\ InMap' # InMap
        => \A c \in InMap' \cap InMap :
             connectedClients'[c].val = connectedClients[c].val]_vars

\* Client 1 has an entry holding both addresses in lowercase, client 2 has
\* none, one client is counted, and a broadcast has been made.
C37_Witness ==
  /\ connectedClients[1].present
  /\ connectedClients[1].val = {"a", "b"}
  /\ ~connectedClients[2].present
  /\ getConnectedClientsCount = 1
  /\ sent # <<>>

\* C38: with no sort_by, applyFilters returns the filtered tokens in
\* non-increasing volume24h, whatever order the stored snapshot has, and
\* with min_liquidity = l > 0 and no min_volume the tokens it returns are
\* exactly the tokens of the snapshot whose liquidity is at least l.
C38_DefaultOrderAndLiquidityFilter ==
  (fPc = "filtered" /\ fFilters.sort_by = "")
  => /\ VolumeSorted(fOut)
     /\ (fFilters.min_liquidity > 0 /\ fFilters.min_volume = 0)
        => Range(fOut)
             = {t \in Range(fTokens) : t.liquidity >= fFilters.min_liquidity}

\* The request's filters with only the volume threshold, and with only the
\* liquidity threshold.
OnlyMinVolume == [fFilters EXCEPT !.min_liquidity = 0]

OnlyMinLiquidity == [fFilters EXCEPT !.min_volume = 0]

\* C39: filtering the snapshot by min_volume and the result by
\* min_liquidity, filtering it by min_liquidity and the result by
\* min_volume, and filtering it once with both thresholds give the same set
\* of tokens.
C39_FiltersCommute ==
  fPc = "filtered"
  => /\ Range(applyFilters(applyFilters(fTokens, OnlyMinVolume), OnlyMinLiquidity))
          = Range(applyFilters(applyFilters(fTokens, OnlyMinLiquidity), OnlyMinVolume))
     /\ Range(applyFilters(applyFilters(fTokens, OnlyMinVolume), OnlyMinLiquidity))
          = Range(fOut)

\* Both thresholds are set; the volume filter alone keeps both tokens of
\* the snapshot, the liquidity filter alone drops one, and the request with
\* both returns the one token that passes both.
C39_Witness ==
  /\ fPc = "filtered"
  /\ fFilters.min_volume > 0
  /\ fFilters.min_liquidity > 0
  /\ Len(fTokens) = 2
  /\ Len(applyFilters(fTokens, OnlyMinVolume)) = 2
  /\ Len(applyFilters(fTokens, OnlyMinLiquidity)) = 1
  /\ Len(fOut) = 1
  /\ fOut = applyFilters(fTokens, OnlyMinLiquidity)

\* C40: no step of filtering and sorting, of paginating, of change
\* detection or of mergeTokens changes the list it was given or a token of
\* it: the list from the store (fTokens, pList), the cached and the fresh
\* list of the detector (dPrev, dCur) and the lists given to mergeTokens
\* (mIn) hold the same elements in the same order after the step.
C40_ReadersLeaveSnapshot ==
  [][/\ fTokens' = fTokens
     /\ pList' = pList
     /\ dPrev' = dPrev
     /\ dCur' = dCur
     /\ mIn' = mIn]_vars

\* A stored list of two tokens in ascending volume was filtered and sorted:
\* the response lists them in descending volume, and the stored list is in
\* the order it had.
C40_Witness ==
  /\ fPc = "filtered"
  /\ Len(fTokens) = 2
  /\ fTokens[1].volume24h < fTokens[2].volume24h
  /\ fOut = <<fTokens[2], fTokens[1]>>

\* C36: in every attempt of a fetch, the first one and the retried ones,
\* the GET is issued right after a permit of the adapter's own tag was
\* acquired in that attempt; an attempt whose acquisition failed with
\* RateLimited issues no GET, and the failure is with the retry wrapper
\* at once (the thunk has thrown, and is run again or given up).
C36_PermitBeforeEveryGet ==
  \A k \in DOMAIN uCalls :
    /\ uCalls[k].tag = uSource
    /\ uCalls[k].op = "GET"
       => /\ k > 1
          /\ uCalls[k - 1] = [op |-> "acquired", tag |-> uSource,
                              attempt |-> uCalls[k].attempt]
    /\ uCalls[k].op = "RateLimited"
       => IF k = Len(uCalls) THEN uPc \in {"threw", "fetching", "rejected"}
          ELSE uCalls[k + 1].attempt > uCalls[k].attempt

\* The first attempt acquired the bucket's one permit, issued the GET and
\* threw on the response; the second and the third were refused a permit
\* and issued no GET; the fetch was given up.
C36_Witness ==
  /\ uPc = "rejected"
  /\ uAttempts = retryAttempts
  /\ Len(uCalls) = 4
  /\ uCalls[1].op = "acquired" /\ uCalls[1].attempt = 1
  /\ uCalls[2].op = "GET" /\ uCalls[2].attempt = 1
  /\ uCalls[3].op = "RateLimited" /\ uCalls[3].attempt = 2
  /\ uCalls[4].op = "RateLimited" /\ uCalls[4].attempt = 3

====
